---- MODULE Spec2Model ----
(***************************************************************************)
(* A model of the fennec image-compression engine (shamspias/fennec).     *)
(*                                                                         *)
(* The module holds several state machines over one set of variables:     *)
(*   SpecJ  the SSIM-guided JPEG quality search (compressJPEGOptimal) and  *)
(*          the JPEG branch of compressImageInternal that stores its       *)
(*          result;                                                        *)
(*   SpecT  the target-size engine (hitTargetSize and its four strategies);*)
(*   SpecB  the candidate comparator betterFit as a pure function;         *)
(*   SpecC  the pipeline of compressImageInternal with its progress        *)
(*          checkpoints.                                                   *)
(* Each specification runs one of the machines and leaves the variables of *)
(* the others at their idle values.                                        *)
(*                                                                         *)
(* SSIM values are per-mille integers (0.94 is 940).  The codecs           *)
(* (image/jpeg, image/png) are the environment: an image is represented by *)
(* the few numbers that decide what the codecs answer for it.              *)
(***************************************************************************)
EXTENDS Integers, Sequences, FiniteSets, TLC

VARIABLES
    \* ---- compressJPEGOptimal (src/unnamed/part_000) ----
    targetSSIM,     \* the target SSIM t of the call, per-mille
    srcBase,        \* the source image: SSIM reached at quality 0 ...
    srcGain,        \* ... and SSIM gained per quality step
    codecBroken,    \* the JPEG codec rejects this buffer
    lo, hi,         \* binary search bounds
    bestQuality, bestSSIM, bestData,
    probes,         \* the probes of the loop so far: <<quality, ssim, bytes>>
    encCalls,       \* encodeJPEG invocations so far
    wOut,           \* what was written to the io.Writer w, in order
    jret,           \* what compressJPEGOptimal returned
    result,         \* the Result fields compressImageInternal fills from it
    jpc,
    \* ---- hitTargetSize (src/targetsize.go) ----
    origW, origH,   \* dimensions of the source image
    opaque,         \* isOpaque(original)
    targetBytes,    \* the byte target T
    optFormat,      \* opts.Format
    cplx,           \* the source image: encoded bytes per pixel and quality
    lanczosExtra,   \* bytes a Lanczos-resized image encodes larger than a
                    \* box-downsampled one of the same size
    encLimit,       \* the JPEG codec rejects an image this wide or high
    ctxDone,        \* the caller's context is cancelled
    candidates,     \* the candidates collected so far
    iter,           \* loop index of the running exploration loop
    loScale, hiScale,   \* bounds of the running scale search
    bestCand,       \* jpegQualityScaleSearch: the best explored candidate
    bestScale, bestQ,   \* scaleSearch: the best explored scale
    discardedErr,   \* an encoder error the fallback dropped
    ran,            \* the strategies hitTargetSize has invoked so far
    tret,           \* what hitTargetSize returned
    tpc,
    \* ---- betterFit (src/targetsize.go) ----
    bfCandidate, bfCurrent,     \* the two sizeResults compared
    bfOut,          \* what betterFit returned
    bpc,
    \* ---- compressImageInternal (src/fennec.go) ----
    imgKind,        \* the image passed in: nil, empty or valid
    ctxNil,         \* the context passed in is nil
    ctxCancelled,   \* ctx.Done() is closed
    preCancelled,   \* the context was cancelled before the call
    cbFailsAt,      \* opts.OnProgress: absent, or the stage it fails at
    sizeMode,       \* opts.TargetSize > 0
    codecFails,     \* the compression step returns an error
    progressLog,    \* the checkpoints passed, and what each saw
    cret,           \* what compressImageInternal returned
    cpc,
    \* ---- jpegQualitySearch as a function (src/targetsize.go) ----
    qsOut,          \* what jpegQualitySearch returned
    qpc,
    \* ---- analyzeFormat and the format resolution (src/targetsize.go, src/fennec.go) ----
    aTotal,         \* the source image: its pixel count w*h ...
    aColors,        \* ... its number of distinct opaque colours ...
    aAlphaAt,       \* ... and the index of its pixel with alpha < 255
                    \* (-1: none)
    aFormat,        \* opts.Format
    aIdx,           \* analyzeFormat: idx, the pixel the scan is at
    colorSet,       \* analyzeFormat: colorSet
    hasAlpha,       \* analyzeFormat: hasAlpha
    aResolved,      \* opts.Format after the resolution
    aEncoded,       \* the format the image was encoded in
    apc,
    \* ---- compressPNG (src/unnamed/part_000) ----
    pKind,          \* the source image: what its pixels are like ...
    pN,             \* ... its pixel count ...
    pLevels,        \* ... and its number of distinct pixel values
    pScan,          \* tryPalettize: the pixel the first loop is at
    pPalette,       \* tryPalettize: the colours met, then the palette
    pEncoded,       \* the image handed to the PNG encoder
    pDecoded,       \* the pixels decoded from the PNG
    ppc,
    \* ---- medianCut and applyPalette (src/targetsize.go) ----
    mImage,         \* the source image: the RGB of its pixels, row after row
    mK,             \* maxColors
    boxes,          \* medianCut: boxes, each one the pixels it holds
    mPalette,       \* the palette medianCut returned
    mIndexed,       \* applyPalette: the index given to every pixel
    mpc,
    \* ---- CompressBatch (src/unnamed/part_014) ----
    items,          \* the batch: the source path of every item
    workersOpt,     \* batchOpts.Workers
    onItemSet,      \* batchOpts.OnItem # nil
    batchCancelled, \* the batch context is done
    workCh,         \* the indices still in the work channel
    results,        \* the results slice
    completed,      \* the counter behind OnItem
    wk,             \* every worker: its position, its item, its place in CompressFile, the outcome
    slotWrites,     \* history: how many times each slot was written
    takenAfterCancel,\* history: the indices received after the cancellation
    invoked,        \* history: the indices CompressFile was called for
    inFlightAtCancel,\* history: the indices inside CompressFile when the context was cancelled
    onItemCalls,    \* history: how often OnItem got each value of completed, and the totals it got
    wpc,
    \* ---- smartResize and lanczosResize (src/resize.go) ----
    rCall,          \* the call: the function, the source buffer (w, h, stride) and the two arguments
    rDstW,          \* lanczosResize: dstW
    rDstH,          \* lanczosResize: dstH
    rOut,           \* the image returned
    rpc,
    \* ---- SSIM and windowedSSIM (src/unnamed/part_002) ----
    sW,             \* width of both images
    sH,             \* height of both images
    sLumA,          \* luminance of the first, constant, image
    sLumB,          \* luminance of the second, constant, image
    sMaxProcs,      \* runtime.GOMAXPROCS(0)
    sWk,            \* windowedSSIM: every worker's row, last row, localSum, localCount
    sResults,       \* windowedSSIM: results, one (sum, count) per worker
    sRowHits,       \* history: how many times the windows of each row were evaluated
    sOut,           \* the value returned, in percent; with the window count
    spc,
    \* ---- Quality presets (src/unnamed/part_007, src/fennec.go) ----
    kQuality,       \* opts.Quality, an int
    kTargetSSIM,    \* opts.TargetSSIM, per mille
    kTarget,        \* the SSIM target the compression uses, per mille
    kpc,
    \* ---- parallelDo (src/resize.go) ----
    dStart,         \* start
    dStop,          \* stop
    dMaxProcs,      \* runtime.GOMAXPROCS(0)
    dWk,            \* every goroutine (0 is the caller's own loop): its batch and its index
    dCalls,         \* history: how many times fn(i) was called, for every i
    dFinished,      \* history: how many calls fn(i) have returned, for every i
    dpc,
    \* ---- boxDownsample (src/unnamed/part_002) ----
    xSrcW,          \* source width
    xSrcH,          \* source height
    xDstW,          \* dstW
    xDstH,          \* dstH
    xDy,            \* the row loop: dy
    xSpanY,         \* the source rows [sy0, sy1) of every destination row done
    xSpanX,         \* the source columns [sx0, sx1) of every destination column
    xWritten,       \* for every destination pixel of the rows done: was it written
    xpc,
    \* ---- MSSSIM (src/unnamed/part_002) ----
    lW,             \* width of the images
    lH,             \* height of the images
    lw,             \* first loop: w
    lh,             \* first loop: h
    lI,             \* the loop index i
    lWeights,       \* weights, as numerators over lDen
    lDen,           \* the divisor of the weights: 10000, or the sum after renormalizing
    lCopyW,         \* width of aCopy
    lCopyH,         \* height of aCopy
    lUsed,          \* the levels whose SSIM has entered the result
    lpc,
    \* ---- ApplyOrientation (src/exif.go, src/targetsize.go) ----
    oW,             \* width of the image
    oH,             \* height of the image
    oOrient,        \* orient
    oImg,           \* the image in hand: the input, then the results of the steps
    opc,
    \* ---- pixel storage in compressImageInternal (src/fennec.go) ----
    iKind,          \* the caller's image: an *image.NRGBA or another image type
    iOrient,        \* orient
    iAutoOrient,    \* opts.AutoOrient
    iResize,        \* the limits: none, limits the source fits, limits that shrink it
    iSizeImg,       \* target-size mode: off, or what sr.img is (nil, the src it was given, a new image)
    iSrc,           \* the buffer src points to; 0 is the caller's pixel storage
    iBuffers,       \* the buffers allocated so far: 1 .. iBuffers
    iWritten,       \* the buffers written to so far
    iResultImage,   \* the buffer of Result.Image; -1 when there is no result
    ipc

jvars == <<targetSSIM, srcBase, srcGain, codecBroken, lo, hi, bestQuality,
           bestSSIM, bestData, probes, encCalls, wOut, jret, result, jpc>>

tvars == <<origW, origH, opaque, targetBytes, optFormat, cplx, lanczosExtra,
           encLimit, ctxDone, candidates, iter, loScale, hiScale, bestCand,
           bestScale, bestQ, discardedErr, ran, tret, tpc>>

bvars == <<bfCandidate, bfCurrent, bfOut, bpc>>

cvars == <<imgKind, ctxNil, ctxCancelled, preCancelled, cbFailsAt, sizeMode,
           codecFails, progressLog, cret, cpc>>

qvars == <<qsOut, qpc>>

avars == <<aTotal, aColors, aAlphaAt, aFormat, aIdx, colorSet,
           hasAlpha, aResolved, aEncoded, apc>>

pvars == <<pKind, pN, pLevels, pScan, pPalette, pEncoded, pDecoded, ppc>>

mvars == <<mImage, mK, boxes, mPalette, mIndexed, mpc>>

wvars == <<items, workersOpt, onItemSet, batchCancelled, workCh,
            results, completed, wk, slotWrites, takenAfterCancel, invoked,
            inFlightAtCancel, onItemCalls, wpc>>

rvars == <<rCall, rDstW, rDstH, rOut, rpc>>

svars == <<sW, sH, sLumA, sLumB, sMaxProcs, sWk, sResults, sRowHits,
            sOut, spc>>

kvars == <<kQuality, kTargetSSIM, kTarget, kpc>>

dvars == <<dStart, dStop, dMaxProcs, dWk, dCalls, dFinished, dpc>>

xvars == <<xSrcW, xSrcH, xDstW, xDstH, xDy, xSpanY, xSpanX, xWritten, xpc>>

lvars == <<lW, lH, lw, lh, lI, lWeights, lDen, lCopyW, lCopyH, lUsed, lpc>>

ovars == <<oW, oH, oOrient, oImg, opc>>

ivars == <<iKind, iOrient, iAutoOrient, iResize, iSizeImg, iSrc,
            iBuffers, iWritten, iResultImage, ipc>>

vars == <<jvars, tvars, bvars, cvars, qvars, avars, pvars, mvars, wvars,
          rvars, svars, kvars, dvars, xvars, lvars, ovars, ivars>>

\* The inputs of each machine, which no step changes, and the variables of
\* the other machines.
jconst == <<targetSSIM, srcBase, srcGain, codecBroken>>
tconst == <<origW, origH, opaque, targetBytes, optFormat, cplx, lanczosExtra,
            encLimit>>
cconst == <<imgKind, ctxNil, preCancelled, cbFailsAt, sizeMode, codecFails>>
notJ == <<tvars, bvars, cvars, qvars, avars, pvars, mvars, wvars, rvars,
          svars, kvars, dvars, xvars, lvars, ovars, ivars>>
notT == <<jvars, bvars, cvars, qvars, avars, pvars, mvars, wvars, rvars,
          svars, kvars, dvars, xvars, lvars, ovars, ivars>>
notB == <<jvars, tvars, cvars, qvars, avars, pvars, mvars, wvars, rvars,
          svars, kvars, dvars, xvars, lvars, ovars, ivars>>
notC == <<jvars, tvars, bvars, qvars, avars, pvars, mvars, wvars, rvars,
          svars, kvars, dvars, xvars, lvars, ovars, ivars>>
notQ == <<jvars, tvars, bvars, cvars, avars, pvars, mvars, wvars, rvars,
          svars, kvars, dvars, xvars, lvars, ovars, ivars>>
notA == <<jvars, tvars, bvars, cvars, qvars, pvars, mvars, wvars, rvars,
          svars, kvars, dvars, xvars, lvars, ovars, ivars>>
notP == <<jvars, tvars, bvars, cvars, qvars, avars, mvars, wvars, rvars,
          svars, kvars, dvars, xvars, lvars, ovars, ivars>>
notM == <<jvars, tvars, bvars, cvars, qvars, avars, pvars, wvars, rvars,
          svars, kvars, dvars, xvars, lvars, ovars, ivars>>
notW == <<jvars, tvars, bvars, cvars, qvars, avars, pvars, mvars, rvars,
          svars, kvars, dvars, xvars, lvars, ovars, ivars>>
notR == <<jvars, tvars, bvars, cvars, qvars, avars, pvars, mvars, wvars,
          svars, kvars, dvars, xvars, lvars, ovars, ivars>>
notS == <<jvars, tvars, bvars, cvars, qvars, avars, pvars, mvars, wvars,
          rvars, kvars, dvars, xvars, lvars, ovars, ivars>>
notK == <<jvars, tvars, bvars, cvars, qvars, avars, pvars, mvars, wvars,
          rvars, svars, dvars, xvars, lvars, ovars, ivars>>
notD == <<jvars, tvars, bvars, cvars, qvars, avars, pvars, mvars, wvars,
          rvars, svars, kvars, xvars, lvars, ovars, ivars>>
notX == <<jvars, tvars, bvars, cvars, qvars, avars, pvars, mvars, wvars,
          rvars, svars, kvars, dvars, lvars, ovars, ivars>>
notL == <<jvars, tvars, bvars, cvars, qvars, avars, pvars, mvars, wvars,
          rvars, svars, kvars, dvars, xvars, ovars, ivars>>
notO == <<jvars, tvars, bvars, cvars, qvars, avars, pvars, mvars, wvars,
          rvars, svars, kvars, dvars, xvars, lvars, ivars>>
notI == <<jvars, tvars, bvars, cvars, qvars, avars, pvars, mvars, wvars,
          rvars, svars, kvars, dvars, xvars, lvars, ovars>>

Nil == "nil"

Min2(a, b) == IF a <= b THEN a ELSE b

(***************************************************************************)
(* Quality presets and their SSIM targets.                                 *)
(***************************************************************************)
Qualities == {"Balanced", "Lossless", "Ultra", "High", "Aggressive", "Maximum"}

QualityTargetSSIM(q) ==
    CASE q = "Lossless"   -> 1000
      [] q = "Ultra"      -> 990
      [] q = "High"       -> 970
      [] q = "Balanced"   -> 940
      [] q = "Aggressive" -> 900
      [] q = "Maximum"    -> 850
      [] OTHER            -> 940

(***************************************************************************)
(* The environment of the JPEG search.                                     *)
(***************************************************************************)
\* The targets of a call: the presets, and two custom opts.TargetSSIM.
JTargets == {QualityTargetSSIM(q) : q \in Qualities} \cup {500, 955}

\* Source images, as rate/distortion profiles: SSIM at quality q is
\* srcBase + srcGain * q, capped at 1.0.
SrcBases == {600, 850, 940, 995}
SrcGains == {0, 1, 4}

\* SSIMFast(src, decode(encode(src, q))) for the source of this call.
SsimAt(q) == Min2(1000, srcBase + srcGain * q)

\* The bytes one encodeJPEG invocation produces: the quality and the serial
\* number of the invocation (two invocations never share a buffer).
Blob(q, call) == [quality |-> q, call |-> call]

\* A nil byte slice.
NoData == Blob(0, 0)

(***************************************************************************)
(* compressJPEGOptimal                                                     *)
(***************************************************************************)
\* The preheated lower bound of the search.
PreheatLo(t) ==
    IF t >= 990 THEN 75
    ELSE IF t >= 970 THEN 50
    ELSE IF t >= 940 THEN 30
    ELSE IF t >= 900 THEN 15
    ELSE 1

\* A search that probes at the first quarter instead of the middle.
MidMutQuarter(l, h) == l + (h - l) \div 4

\* mid := (lo + hi) / 2
Mid(l, h) == (l + h) \div 2

\* One iteration of the loop: encode at mid, decode, measure, move a bound.
Probe ==
    /\ jpc = "loop"
    /\ lo <= hi
    /\ ~codecBroken
    /\ LET mid  == Mid(lo, hi)
           buf  == Blob(mid, encCalls + 1)
           ssim == SsimAt(mid)
       IN  /\ encCalls' = encCalls + 1
           /\ probes' = Append(probes, <<mid, ssim, buf>>)
           /\ IF ssim >= targetSSIM
              THEN /\ bestQuality' = mid
                   /\ bestSSIM' = ssim
                   /\ bestData' = buf
                   /\ hi' = mid - 1
                   /\ lo' = lo
              ELSE /\ lo' = mid + 1
                   /\ UNCHANGED <<bestQuality, bestSSIM, bestData, hi>>
    /\ UNCHANGED <<notJ, jconst, wOut, jret,
                   result, jpc>>

\* encodeJPEG or jpeg.Decode fails inside the loop: return (0, 0, nil, err).
ProbeError ==
    /\ jpc = "loop"
    /\ lo <= hi
    /\ codecBroken
    /\ encCalls' = encCalls + 1
    /\ jret' = [quality |-> 0, ssim |-> 0, data |-> NoData, err |-> "codec"]
    /\ jpc' = "returned"
    /\ UNCHANGED <<notJ, jconst, lo, hi,
                   bestQuality, bestSSIM, bestData, probes, wOut, result>>

\* After the loop: write the cached bytes, or encode again at bestQuality.
Finish ==
    /\ jpc = "loop"
    /\ lo > hi
    /\ IF bestData # NoData
       THEN /\ wOut' = Append(wOut, bestData)
            /\ encCalls' = encCalls
            /\ jret' = [quality |-> bestQuality, ssim |-> bestSSIM,
                        data |-> bestData, err |-> Nil]
       ELSE /\ encCalls' = encCalls + 1
            /\ wOut' = Append(wOut, Blob(bestQuality, encCalls + 1))
            /\ jret' = [quality |-> bestQuality, ssim |-> bestSSIM,
                        data |-> NoData, err |-> Nil]
    /\ jpc' = "returned"
    /\ UNCHANGED <<notJ, jconst, lo, hi,
                   bestQuality, bestSSIM, bestData, probes, result>>

\* compressImageInternal, case JPEG: take the return values, and replace the
\* buffer by the cached bytes when there are any.
StoreJPEG ==
    /\ jpc = "returned"
    /\ IF jret.err # Nil
       THEN /\ result' = [result EXCEPT !.err = "fennec: JPEG compression"]
            /\ wOut' = wOut
       ELSE LET compressed == IF jret.data # NoData THEN <<jret.data>> ELSE wOut
            IN  /\ wOut' = compressed
                /\ result' = [err |-> Nil, JPEGQuality |-> jret.quality,
                              SSIM |-> jret.ssim, CompressedData |-> compressed]
    /\ jpc' = "done"
    /\ UNCHANGED <<notJ, jconst, lo, hi,
                   bestQuality, bestSSIM, bestData, probes, encCalls, jret>>


JNext == Probe \/ ProbeError \/ Finish \/ StoreJPEG

(***************************************************************************)
(* The target-size engine: environment.                                    *)
(***************************************************************************)
minJPEGQuality == 20

\* Scale factors are numerators over ScaleDen, so that the midpoints of the
\* 12-step bisection of [0.05, 1.0] are integers: 0.05 is 20480.
ScaleDen == 409600
Scale005 == 20480
Scale100 == 409600
RoundScales == <<307200, 204800, 153600, 102400>>   \* 0.75, 0.50, 0.375, 0.25

\* int(float64(n) * scale)
Scaled(n, scale) == (n * scale) \div ScaleDen

\* jpeg.Encode rejects an image that is too large.
JpegFails(w, h) == w >= encLimit \/ h >= encLimit

\* Bytes jpeg.Encode produces for a w x h rendering of the source at quality
\* q: a header plus a body that grows with the pixel count and the quality.
\* kind is "orig", "box" (boxDownsample) or "lanczos" (lanczosResize).
JpegSize(w, h, q, kind) ==
    40 + (w * h * q * cplx) \div 64
       + (IF kind = "lanczos" THEN lanczosExtra ELSE 0)

\* Bytes of the indexed PNG of the source quantized to maxColors colours.
PalettePngSize(maxColors) ==
    LET bits == CASE maxColors = 256 -> 8 [] maxColors = 128 -> 7
                  [] maxColors = 64 -> 6  [] maxColors = 32 -> 5
                  [] OTHER -> 4
    IN  30 + (origW * origH * bits * cplx) \div 32

\* Bytes of the truecolour PNG of a w x h rendering of the source.
PngSize(w, h, kind) ==
    30 + (w * h * cplx)
       + (IF kind = "lanczos" THEN lanczosExtra ELSE 0)

\* The SSIM values the measurements of one run can give.
MaxSsimStep == 1
SSIMs == {1000 - 50 * k : k \in 0..MaxSsimStep}

\* A sizeResult.  data is represented by len(data); strategy names the code
\* that built the record.
SizeResult(size, format, quality, ssim, w, h, strategy) ==
    [size |-> size, format |-> format, quality |-> quality, ssim |-> ssim,
     finalW |-> w, finalH |-> h, strategy |-> strategy]

NoResult == SizeResult(0, "none", 0, 0, 0, 0, "none")

(***************************************************************************)
(* betterFit                                                               *)
(***************************************************************************)
\* betterFit with the quality tie-break made non-strict (>= for >).
betterFitMutGE(candidate, current, target) ==
    LET cUnder == candidate.size <= target
        bUnder == current.size <= target
    IN  IF cUnder /\ ~bUnder THEN TRUE
        ELSE IF ~cUnder /\ bUnder THEN FALSE
        ELSE IF cUnder /\ bUnder
             THEN IF candidate.ssim # current.ssim
                  THEN candidate.ssim > current.ssim
                  ELSE candidate.quality >= current.quality
        ELSE candidate.size < current.size

\* betterFit with the SSIM comparison reversed (< for >).
betterFitMutLowSsim(candidate, current, target) ==
    LET cUnder == candidate.size <= target
        bUnder == current.size <= target
    IN  IF cUnder /\ ~bUnder THEN TRUE
        ELSE IF ~cUnder /\ bUnder THEN FALSE
        ELSE IF cUnder /\ bUnder
             THEN IF candidate.ssim # current.ssim
                  THEN candidate.ssim < current.ssim
                  ELSE candidate.quality > current.quality
        ELSE candidate.size < current.size

betterFit(candidate, current, target) ==
    LET cSize  == candidate.size
        bSize  == current.size
        cUnder == cSize <= target
        bUnder == bSize <= target
    IN  IF cUnder /\ ~bUnder THEN TRUE
        ELSE IF ~cUnder /\ bUnder THEN FALSE
        ELSE IF cUnder /\ bUnder
             THEN IF candidate.ssim # current.ssim
                  THEN candidate.ssim > current.ssim
                  ELSE candidate.quality > current.quality
        ELSE cSize < bSize

\* The selection loop of hitTargetSize over candidates[i..], from best.
RECURSIVE PickFrom(_, _, _, _)
PickFrom(cands, i, best, target) ==
    IF i > Len(cands) THEN best
    ELSE IF best = NoResult \/ betterFit(cands[i], best, target)
         THEN PickFrom(cands, i + 1, cands[i], target)
         ELSE PickFrom(cands, i + 1, best, target)

\* The selection loop without its "best == nil" test.
PickBestMutNoNil(cands, target) ==
    LET RECURSIVE Scan(_, _)
        Scan(i, best) ==
            IF i > Len(cands) THEN best
            ELSE IF best # NoResult /\ betterFit(cands[i], best, target)
                 THEN Scan(i + 1, cands[i])
                 ELSE Scan(i + 1, best)
    IN  Scan(1, NoResult)

PickBest(cands, target) == PickFrom(cands, 1, NoResult, target)

(***************************************************************************)
(* Strategy 1: jpegQualitySearchOpt                                        *)
(***************************************************************************)
\* The initial bounds from the target bits per pixel, 8T / pixels.
QualityBounds(target, pixels) ==
    IF 16 * target < pixels THEN <<1, 40>>          \* bpp < 0.5
    ELSE IF 8 * target < pixels THEN <<10, 70>>     \* bpp < 1.0
    ELSE IF 4 * target < pixels THEN <<30, 90>>     \* bpp < 2.0
    ELSE IF 2 * target > pixels THEN <<60, 100>>    \* bpp > 4.0
    ELSE <<1, 100>>

\* The loop of jpegQualitySearchOpt: the best quality found (0: none).
RECURSIVE QualityLoop(_, _, _, _, _, _, _)
QualityLoop(w, h, kind, target, qlo, qhi, bestq) ==
    IF qlo > qhi THEN bestq
    ELSE LET mid == (qlo + qhi) \div 2
         IN  IF JpegSize(w, h, mid, kind) <= target
             THEN QualityLoop(w, h, kind, target, mid + 1, qhi, mid)
             ELSE QualityLoop(w, h, kind, target, qlo, mid - 1, bestq)

\* jpegQualitySearchOpt on a w x h rendering: [err, found, quality, size].
jpegQualitySearchOpt(w, h, kind, target) ==
    LET b == QualityBounds(target, w * h)
        q == QualityLoop(w, h, kind, target, b[1], b[2], 0)
    IN  IF JpegFails(w, h)
        THEN [err |-> TRUE, found |-> FALSE, quality |-> 0, size |-> 0]
        ELSE IF q = 0
        THEN [err |-> FALSE, found |-> FALSE, quality |-> 0, size |-> 0]
        ELSE [err |-> FALSE, found |-> TRUE, quality |-> q,
              size |-> JpegSize(w, h, q, kind)]

\* quantizeStrategy: the first palette size of 256, 128, 64, 32, 16 whose
\* indexed PNG fits (0: none).
PaletteSizes == <<256, 128, 64, 32, 16>>

RECURSIVE QuantizeFrom(_, _)
QuantizeFrom(i, target) ==
    IF i > Len(PaletteSizes) THEN 0
    ELSE IF PalettePngSize(PaletteSizes[i]) <= target THEN PaletteSizes[i]
    ELSE QuantizeFrom(i + 1, target)

(***************************************************************************)
(* hitTargetSize                                                           *)
(***************************************************************************)
TDims       == {<<12, 12>>, <<32, 24>>, <<64, 48>>}
TTargets    == {30, 120, 400, 2000}
Formats     == {"Auto", "JPEG", "PNG"}
Cplxs       == {1, 4}
LanczosExtras == {0, 30}
EncLimits   == {64, 1000}

wantPNG    == optFormat = "PNG"
wantJPEG   == optFormat = "JPEG"
canUseJPEG == ~wantPNG /\ opaque

\* The format passed on as the option has it, Auto unresolved.
ScaleFormatMutRaw == optFormat

\* The format scaleSearch is called with.
ScaleFormat ==
    IF optFormat = "Auto"
    THEN (IF canUseJPEG THEN "JPEG" ELSE "PNG")
    ELSE optFormat

NoCand == [scale |-> 0, quality |-> 0, size |-> 0]

\* The caller cancels the context it passed to CompressImage.
Cancel ==
    /\ tpc # "done"
    /\ ~ctxDone
    /\ ctxDone' = TRUE
    /\ UNCHANGED <<notT, tconst, ran, candidates, iter, loScale, hiScale,
                   bestCand, bestScale, bestQ, discardedErr, tret, tpc>>

\* Strategy 1: JPEG quality binary search, with the quality floor.
Strategy1 ==
    /\ tpc = "s1"
    /\ LET r == jpegQualitySearchOpt(origW, origH, "orig", targetBytes)
       IN  IF (canUseJPEG \/ wantJPEG) /\ ~r.err /\ r.found
              /\ r.quality >= minJPEGQuality
           THEN \E ssim \in SSIMs :
                  candidates' = Append(candidates,
                      SizeResult(r.size, "JPEG", r.quality, ssim,
                                 origW, origH, "s1"))
           ELSE candidates' = candidates
    /\ tpc' = "s2"
    /\ ran' = (IF canUseJPEG \/ wantJPEG THEN ran \cup {"s1"} ELSE ran)
    /\ UNCHANGED <<notT, tconst, ctxDone, iter, loScale, hiScale,
                   bestCand, bestScale, bestQ, discardedErr, tret>>

\* Strategy 2: colour quantization to an indexed PNG.
Strategy2 ==
    /\ tpc = "s2"
    /\ LET k == QuantizeFrom(1, targetBytes)
       IN  IF ~wantJPEG /\ k # 0
           THEN \E ssim \in SSIMs :
                  candidates' = Append(candidates,
                      SizeResult(PalettePngSize(k), "PNG", 0, ssim,
                                 origW, origH, "s2"))
           ELSE candidates' = candidates
    /\ tpc' = "s3"
    /\ ran' = (IF ~wantJPEG THEN ran \cup {"s2"} ELSE ran)
    /\ UNCHANGED <<notT, tconst, ctxDone, iter, loScale, hiScale,
                   bestCand, bestScale, bestQ, discardedErr, tret>>

\* Strategy 3 is entered (or skipped): jpegQualityScaleSearch sets up its
\* scale bounds.
Strategy3Begin ==
    /\ tpc = "s3"
    /\ IF canUseJPEG \/ wantJPEG
       THEN /\ loScale' = Scale005
            /\ hiScale' = Scale100
            /\ bestCand' = NoCand
            /\ iter' = 0
            /\ tpc' = "s3loop"
       ELSE /\ tpc' = "s4"
            /\ UNCHANGED <<loScale, hiScale, bestCand, iter>>
    /\ ran' = (IF canUseJPEG \/ wantJPEG THEN ran \cup {"s3"} ELSE ran)
    /\ UNCHANGED <<notT, tconst, ctxDone, candidates, bestScale,
                   bestQ, discardedErr, tret>>

\* One iteration of phase 1 of jpegQualityScaleSearch (10 iterations).
Strategy3Loop ==
    /\ tpc = "s3loop"
    /\ iter < 10
    /\ LET midScale == (loScale + hiScale) \div 2
           newW == Scaled(origW, midScale)
           newH == Scaled(origH, midScale)
           r    == jpegQualitySearchOpt(newW, newH, "box", targetBytes)
       IN  IF newW < 8 \/ newH < 8
           THEN /\ loScale' = midScale
                /\ UNCHANGED <<hiScale, bestCand>>
           ELSE IF r.err \/ ~r.found
           THEN /\ hiScale' = midScale
                /\ UNCHANGED <<loScale, bestCand>>
           ELSE IF r.size <= targetBytes /\ r.quality >= minJPEGQuality
           THEN /\ bestCand' = [scale |-> midScale, quality |-> r.quality,
                                size |-> r.size]
                /\ loScale' = midScale
                /\ UNCHANGED hiScale
           ELSE /\ hiScale' = midScale
                /\ UNCHANGED <<loScale, bestCand>>
    /\ iter' = iter + 1
    /\ UNCHANGED <<notT, tconst, ran, ctxDone, candidates, bestScale,
                   bestQ, discardedErr, tret, tpc>>

\* The bisection is over: go on to the round scales.
Strategy3LoopEnd ==
    /\ tpc = "s3loop"
    /\ iter = 10
    /\ iter' = 0
    /\ tpc' = "s3round"
    /\ UNCHANGED <<notT, tconst, ran, ctxDone, candidates, loScale,
                   hiScale, bestCand, bestScale, bestQ, discardedErr, tret>>

\* One iteration of the loop over the round scales 0.75, 0.50, 0.375, 0.25.
Strategy3Round ==
    /\ tpc = "s3round"
    /\ iter < Len(RoundScales)
    /\ LET scale == RoundScales[iter + 1]
           newW == Scaled(origW, scale)
           newH == Scaled(origH, scale)
           r    == jpegQualitySearchOpt(newW, newH, "box", targetBytes)
       IN  IF newW < 8 \/ newH < 8
           THEN UNCHANGED bestCand
           ELSE IF r.err \/ ~r.found \/ r.size > targetBytes
           THEN UNCHANGED bestCand
           ELSE IF r.quality < minJPEGQuality
           THEN UNCHANGED bestCand
           ELSE IF bestCand = NoCand \/ scale > bestCand.scale
           THEN bestCand' = [scale |-> scale, quality |-> r.quality,
                             size |-> r.size]
           ELSE UNCHANGED bestCand
    /\ iter' = iter + 1
    /\ UNCHANGED <<notT, tconst, ran, ctxDone, candidates, loScale,
                   hiScale, bestScale, bestQ, discardedErr, tret, tpc>>

\* Phase 2 of jpegQualityScaleSearch: Lanczos at the winning scale and a new
\* quality search; hitTargetSize appends what it returns.
Strategy3Final ==
    /\ tpc = "s3round"
    /\ iter = Len(RoundScales)
    /\ LET finalW == Scaled(origW, bestCand.scale)
           finalH == Scaled(origH, bestCand.scale)
           r == jpegQualitySearchOpt(finalW, finalH, "lanczos", targetBytes)
       IN  IF bestCand = NoCand
           THEN candidates' = candidates
           ELSE IF r.err \/ ~r.found
           THEN candidates' = candidates
           ELSE IF r.quality < minJPEGQuality
           THEN candidates' = candidates
           ELSE \E ssim \in SSIMs :
                  candidates' = Append(candidates,
                      SizeResult(r.size, "JPEG", r.quality, ssim,
                                 finalW, finalH, "s3"))
    /\ iter' = 0
    /\ tpc' = "s4"
    /\ UNCHANGED <<notT, tconst, ran, ctxDone, loScale, hiScale,
                   bestCand, bestScale, bestQ, discardedErr, tret>>

\* Strategy 4 runs only when no other strategy produced a candidate.
Strategy4Begin ==
    /\ tpc = "s4"
    /\ IF Len(candidates) = 0
       THEN /\ loScale' = Scale005
            /\ hiScale' = Scale100
            /\ bestScale' = 0
            /\ bestQ' = 0
            /\ iter' = 0
            /\ tpc' = "s4loop"
       ELSE /\ tpc' = "pick"
            /\ UNCHANGED <<loScale, hiScale, bestScale, bestQ, iter>>
    /\ ran' = (IF Len(candidates) = 0 THEN ran \cup {"s4"} ELSE ran)
    /\ UNCHANGED <<notT, tconst, ctxDone, candidates, bestCand,
                   discardedErr, tret>>

\* One iteration of phase 1 of scaleSearch (12 iterations).
Strategy4Loop ==
    /\ tpc = "s4loop"
    /\ iter < 12
    /\ LET mid  == (loScale + hiScale) \div 2
           newW == Scaled(origW, mid)
           newH == Scaled(origH, mid)
           r    == jpegQualitySearchOpt(newW, newH, "box", targetBytes)
           jfit == ~r.err /\ r.found /\ r.size <= targetBytes
                   /\ r.quality >= minJPEGQuality
           fits == IF ScaleFormat = "JPEG" THEN jfit
                   ELSE PngSize(newW, newH, "box") <= targetBytes
           q    == IF ScaleFormat = "JPEG" /\ jfit THEN r.quality ELSE 0
       IN  IF newW < 1 \/ newH < 1
           THEN /\ loScale' = mid
                /\ UNCHANGED <<hiScale, bestScale, bestQ>>
           ELSE IF fits
           THEN /\ bestScale' = mid
                /\ bestQ' = q
                /\ loScale' = mid
                /\ UNCHANGED hiScale
           ELSE /\ hiScale' = mid
                /\ UNCHANGED <<loScale, bestScale, bestQ>>
    /\ iter' = iter + 1
    /\ UNCHANGED <<notT, tconst, ran, ctxDone, candidates, bestCand,
                   discardedErr, tret, tpc>>

\* Phase 2 of scaleSearch: Lanczos at the best scale and the final encode;
\* hitTargetSize appends what it returns.
Strategy4Final ==
    /\ tpc = "s4loop"
    /\ iter = 12
    /\ LET finalW == Scaled(origW, bestScale)
           finalH == Scaled(origH, bestScale)
           r == jpegQualitySearchOpt(finalW, finalH, "lanczos", targetBytes)
           \* encodeJPEG(&buf, scaled, bestQ, false), its error dropped
           bufJ == IF JpegFails(finalW, finalH) THEN 0
                   ELSE JpegSize(finalW, finalH, bestQ, "lanczos")
       IN  IF bestScale = 0
           THEN candidates' = candidates
           ELSE \E ssim \in SSIMs :
                  candidates' = Append(candidates,
                    IF ScaleFormat = "JPEG"
                    THEN IF r.err \/ ~r.found
                         THEN SizeResult(bufJ, "JPEG", bestQ, ssim,
                                         finalW, finalH, "s4")
                         ELSE SizeResult(r.size, "JPEG", r.quality, ssim,
                                         finalW, finalH, "s4")
                    ELSE SizeResult(PngSize(finalW, finalH, "lanczos"),
                                    ScaleFormat, bestQ, ssim,
                                    finalW, finalH, "s4"))
    /\ iter' = 0
    /\ tpc' = "pick"
    /\ UNCHANGED <<notT, tconst, ran, ctxDone, loScale, hiScale,
                   bestCand, bestScale, bestQ, discardedErr, tret>>

\* The end of hitTargetSize: the fallback encode when nothing was collected,
\* else the best candidate under betterFit.  The error is always nil.
Pick ==
    /\ tpc = "pick"
    /\ IF Len(candidates) = 0
       THEN IF canUseJPEG \/ wantJPEG
            THEN /\ discardedErr' = JpegFails(origW, origH)
                 /\ tret' = [res |-> SizeResult(
                                IF JpegFails(origW, origH) THEN 0
                                ELSE JpegSize(origW, origH, 1, "orig"),
                                "JPEG", 1, 1000, origW, origH, "fallback"),
                             err |-> Nil]
            ELSE /\ discardedErr' = FALSE
                 /\ tret' = [res |-> SizeResult(
                                PngSize(origW, origH, "orig"),
                                "PNG", 0, 1000, origW, origH, "fallback"),
                             err |-> Nil]
       ELSE /\ tret' = [res |-> PickBest(candidates, targetBytes),
                        err |-> Nil]
            /\ UNCHANGED discardedErr
    /\ tpc' = "done"
    /\ UNCHANGED <<notT, tconst, ran, ctxDone, candidates, iter, loScale,
                   hiScale, bestCand, bestScale, bestQ>>

TNext ==
    \/ Cancel
    \/ Strategy1 \/ Strategy2
    \/ Strategy3Begin \/ Strategy3Loop \/ Strategy3LoopEnd
    \/ Strategy3Round \/ Strategy3Final
    \/ Strategy4Begin \/ Strategy4Loop \/ Strategy4Final
    \/ Pick

(***************************************************************************)
(* betterFit as a pure function: the inputs are drawn, then it is applied. *)
(***************************************************************************)
BTarget  == 100
BSizes   == {BTarget - 1, BTarget, BTarget + 1, BTarget + 2}
BSsims   == {900, 950}
BQuals   == {0, 20, 60}
BResults == {SizeResult(sz, "JPEG", q, ss, 1, 1, "test") :
                 sz \in BSizes, q \in BQuals, ss \in BSsims}

ApplyBetterFit ==
    /\ bpc = "call"
    /\ bfOut' = betterFit(bfCandidate, bfCurrent, BTarget)
    /\ bpc' = "done"
    /\ UNCHANGED <<notB, bfCandidate, bfCurrent>>

BNext == ApplyBetterFit

(***************************************************************************)
(* compressImageInternal: the pipeline and its progress checkpoints.       *)
(***************************************************************************)
Stages == <<"resizing", "compressing", "optimizing", "encoding">>

ErrCanceled == "context canceled"
ErrCallback == "callback error"

\* Someone cancels the context while the call runs.
CancelCtx ==
    /\ cpc # "done"
    /\ ~ctxNil
    /\ ~ctxCancelled
    /\ ctxCancelled' = TRUE
    /\ UNCHANGED <<notC, cconst, progressLog, cret, cpc>>

\* reportProgress without its look at the context.
reportProgressMutNoCtx(stage) ==
    IF cbFailsAt # "nocallback"
    THEN (IF cbFailsAt = stage THEN ErrCallback ELSE Nil)
    ELSE Nil

\* Options.reportProgress: the context first, then the callback.
reportProgress(stage) ==
    IF ~ctxNil /\ ctxCancelled THEN ErrCanceled
    ELSE IF cbFailsAt # "nocallback"
    THEN (IF cbFailsAt = stage THEN ErrCallback ELSE Nil)
    ELSE Nil

\* The nil and empty-image checks, toNRGBA and the orientation.
Validate ==
    /\ cpc = "start"
    /\ IF imgKind = "nil"
       THEN /\ cret' = [res |-> Nil, err |-> "fennec: nil image"]
            /\ cpc' = "done"
       ELSE IF imgKind = "empty"
       THEN /\ cret' = [res |-> Nil, err |-> "fennec: empty image"]
            /\ cpc' = "done"
       ELSE /\ cret' = cret
            /\ cpc' = "resizing"
    /\ UNCHANGED <<notC, cconst, ctxCancelled, progressLog>>

\* A progress checkpoint: report, and return the error if there is one.
\* The log keeps what the checkpoint saw.
Checkpoint(stage, next) ==
    /\ cpc = stage
    /\ LET err == reportProgress(stage)
       IN  /\ progressLog' = Append(progressLog,
                 [stage |-> stage,
                  cancelled |-> ~ctxNil /\ ctxCancelled,
                  cbErr |-> cbFailsAt = stage])
           /\ IF err # Nil
              THEN /\ cret' = [res |-> Nil, err |-> err]
                   /\ cpc' = "done"
              ELSE /\ cret' = cret
                   /\ cpc' = next
    /\ UNCHANGED <<notC, cconst, ctxCancelled>>

CheckResizing    == Checkpoint("resizing", "resize")
CheckCompressing == Checkpoint("compressing", "mode")
CheckOptimizing  == Checkpoint("optimizing", "compress")
CheckEncoding    == Checkpoint("encoding", "finish")

\* Step 3: smartResize when a limit is set.
Resize ==
    /\ cpc = "resize"
    /\ cpc' = "compressing"
    /\ UNCHANGED <<notC, cconst, ctxCancelled, progressLog, cret>>

\* Target-size mode returns the result of hitTargetSize; standard mode
\* resolves the format and goes on.
Mode ==
    /\ cpc = "mode"
    /\ IF sizeMode
       THEN /\ cret' = [res |-> "result", err |-> Nil]
            /\ cpc' = "done"
       ELSE /\ cret' = cret
            /\ cpc' = "optimizing"
    /\ UNCHANGED <<notC, cconst, ctxCancelled, progressLog>>

\* compressPNG or compressJPEGOptimal; a codec error is returned.
Compress ==
    /\ cpc = "compress"
    /\ IF codecFails
       THEN /\ cret' = [res |-> Nil, err |-> "fennec: compression"]
            /\ cpc' = "done"
       ELSE /\ cret' = cret
            /\ cpc' = "encoding"
    /\ UNCHANGED <<notC, cconst, ctxCancelled, progressLog>>

\* The result is completed and returned.
FinishResult ==
    /\ cpc = "finish"
    /\ cret' = [res |-> "result", err |-> Nil]
    /\ cpc' = "done"
    /\ UNCHANGED <<notC, cconst, ctxCancelled, progressLog>>

CNext ==
    \/ CancelCtx \/ Validate
    \/ CheckResizing \/ CheckCompressing \/ CheckOptimizing \/ CheckEncoding
    \/ Resize \/ Mode \/ Compress \/ FinishResult

(***************************************************************************)
(* jpegQualitySearch as a pure function: the image and the target are      *)
(* drawn, then it is applied.                                              *)
(***************************************************************************)
QDims == TDims \cup {<<8, 8>>, <<100, 75>>}

\* jpegQualitySearch(src, targetBytes) is jpegQualitySearchOpt with the SSIM
\* measured.
ApplyQualitySearch ==
    /\ qpc = "call"
    /\ qsOut' = jpegQualitySearchOpt(origW, origH, "orig", targetBytes)
    /\ qpc' = "done"
    /\ UNCHANGED notQ

QNext == ApplyQualitySearch

(***************************************************************************)
(* Quality mode: the resolution of Format=Auto by analyzeFormat.           *)
(***************************************************************************)
analyzeMaxSamples == 10000

\* The images: <<pixel count, distinct colours>>.  Rows follow each other in
\* the scan, so a pixel is named by its index y*w + x.
AImages == {<<100, 2>>, <<100, 600>>, <<600, 600>>, <<10000, 600>>,
            <<20000, 600>>, <<60000, 600>>}

\* Where the pixel with alpha < 255 lies (-1: the image is opaque).
AlphaSpots(total) == {-1, 0, 1, 99, total - 1}

\* The colour of pixel i, alpha included: the opaque pixels show the
\* colours 0, 1, 2, ... until the image's colours are used up.
PixelColor(i) == IF i = aAlphaAt THEN -1 ELSE Min2(i, aColors - 1)

\* step, the sampling distance.
AStep == IF aTotal > analyzeMaxSamples
         THEN (IF aTotal \div analyzeMaxSamples < 1 THEN 1
               ELSE aTotal \div analyzeMaxSamples)
         ELSE 1

\* compressImageInternal: an explicit format is kept, Auto calls
\* analyzeFormat.
ResolveStart ==
    /\ apc = "start"
    /\ IF aFormat = "Auto"
       THEN /\ apc' = "scan"
            /\ UNCHANGED aResolved
       ELSE /\ apc' = "encode"
            /\ aResolved' = aFormat
    /\ UNCHANGED <<notA, aTotal, aColors, aAlphaAt, aFormat, aIdx, colorSet,
                   hasAlpha, aEncoded>>

\* One iteration of the pixel loops of analyzeFormat.
ScanPixel ==
    /\ apc = "scan"
    /\ aIdx < aTotal
    /\ Cardinality(colorSet) < 512
    /\ IF aIdx % AStep # 0
       THEN UNCHANGED <<colorSet, hasAlpha>>
       ELSE /\ hasAlpha' = (hasAlpha \/ aIdx = aAlphaAt)
            /\ colorSet' = colorSet \cup {PixelColor(aIdx)}
    /\ aIdx' = aIdx + 1
    /\ UNCHANGED <<notA, aTotal, aColors, aAlphaAt, aFormat, aResolved,
                   aEncoded, apc>>

\* The loops are left; analyzeFormat returns and Auto is replaced.
ScanEnd ==
    /\ apc = "scan"
    /\ ~(aIdx < aTotal /\ Cardinality(colorSet) < 512)
    /\ aResolved' = (IF hasAlpha THEN "PNG"
                     ELSE IF Cardinality(colorSet) < 256 THEN "PNG"
                     ELSE "JPEG")
    /\ apc' = "encode"
    /\ UNCHANGED <<notA, aTotal, aColors, aAlphaAt, aFormat, aIdx, colorSet,
                   hasAlpha, aEncoded>>

\* The switch on opts.Format: compressPNG or compressJPEGOptimal.
EncodeResolved ==
    /\ apc = "encode"
    /\ aEncoded' = aResolved
    /\ apc' = "done"
    /\ UNCHANGED <<notA, aTotal, aColors, aAlphaAt, aFormat, aIdx, colorSet,
                   hasAlpha, aResolved>>

ANext == ResolveStart \/ ScanPixel \/ ScanEnd \/ EncodeResolved

(***************************************************************************)
(* compressPNG: the three tiers of the PNG optimizer, and the decoding of  *)
(* its output.  A pixel is <<R, G, B, A>>.                                 *)
(***************************************************************************)
PKinds  == {"gray", "grayalpha", "rgb", "rgba"}
PCounts == {4, 300, 600}
PLevelSet == {1, 2, 256, 257, 300}

\* Pixel i of the source image: the image repeats pLevels distinct values.
Pixel(i) ==
    LET c == i % pLevels
    IN  CASE pKind = "gray"      -> <<c % 256, c % 256, c % 256, 255>>
          [] pKind = "grayalpha" -> <<c % 32, c % 32, c % 32, 255 - (c \div 32)>>
          [] pKind = "rgb"       -> <<c % 256, c \div 256, 7, 255>>
          [] OTHER               -> <<c % 256, 3, 9, 255 - (c \div 256)>>

PixelIdx == 0..(pN - 1)

\* A nil image.
NoImage == [tier |-> "none", palette |-> <<>>, pix |-> <<>>]

\* isGrayscale: R = G = B in every pixel.
isGrayscale == \A i \in PixelIdx : Pixel(i)[1] = Pixel(i)[2]
                                   /\ Pixel(i)[2] = Pixel(i)[3]

\* toGray: the red channel of every pixel.
toGray == [tier |-> "gray", palette |-> <<>>,
           pix |-> [i \in PixelIdx |-> Pixel(i)[1]]]

\* compressPNG calls tryPalettize(img, 256).  One iteration of its first
\* pixel loop: the colour is counted in colorMap, and nil is returned as
\* soon as the map holds more than maxColors keys.  pPalette holds the keys
\* of colorMap in the order they were met, which is the order they are
\* taken in when the palette is built (a map is ranged over in some order).
ScanColor ==
    /\ ppc = "start"
    /\ pScan < pN
    /\ LET key == Pixel(pScan)
           seen == \E k \in 1..Len(pPalette) : pPalette[k] = key
           keys == IF seen THEN pPalette ELSE Append(pPalette, key)
       IN  IF Len(keys) > 256
           THEN /\ pPalette' = <<>>
                /\ ppc' = "gray"
                /\ pScan' = pScan
           ELSE /\ pPalette' = keys
                /\ ppc' = ppc
                /\ pScan' = pScan + 1
    /\ UNCHANGED <<notP, pKind, pN, pLevels, pEncoded, pDecoded>>

\* The first loop of tryPalettize is over: the palette is built.
ScanDone ==
    /\ ppc = "start"
    /\ pScan = pN
    /\ ppc' = "index"
    /\ UNCHANGED <<notP, pKind, pN, pLevels, pScan, pPalette, pEncoded,
                   pDecoded>>

\* tryPalettize creates the paletted image: every pixel gets colorIndex of
\* its colour, which is uint8(len(palette)) at the time the colour was
\* appended.
IndexPixels ==
    /\ ppc = "index"
    /\ pEncoded' = [tier |-> "palette", palette |-> pPalette,
                    pix |-> [i \in PixelIdx |->
                       ((CHOOSE k \in 1..Len(pPalette) :
                             pPalette[k] = Pixel(i)) - 1) % 256]]
    /\ ppc' = "decode"
    /\ UNCHANGED <<notP, pKind, pN, pLevels, pScan, pPalette, pDecoded>>

\* compressPNG, second and third tier: grayscale, else the full NRGBA.
GrayTier ==
    /\ ppc = "gray"
    /\ pEncoded' = (IF isGrayscale THEN toGray
                    ELSE [tier |-> "nrgba", palette |-> <<>>,
                          pix |-> [i \in PixelIdx |-> Pixel(i)]])
    /\ ppc' = "decode"
    /\ UNCHANGED <<notP, pKind, pN, pLevels, pScan, pPalette, pDecoded>>

\* png.Decode of what png.Encode wrote, as NRGBA pixels: the codec keeps an
\* indexed, a gray and an NRGBA image as they are.
DecodePNG ==
    /\ ppc = "decode"
    /\ pDecoded' = [i \in PixelIdx |->
          CASE pEncoded.tier = "palette" ->
                  pEncoded.palette[pEncoded.pix[i] + 1]
            [] pEncoded.tier = "gray" ->
                  <<pEncoded.pix[i], pEncoded.pix[i], pEncoded.pix[i], 255>>
            [] OTHER -> pEncoded.pix[i]]
    /\ ppc' = "done"
    /\ UNCHANGED <<notP, pKind, pN, pLevels, pScan, pPalette, pEncoded>>

PNext == ScanColor \/ ScanDone \/ IndexPixels \/ GrayTier \/ DecodePNG

(***************************************************************************)
(* medianCut and applyPalette.  A pixel is <<R, G, B>>.                    *)
(***************************************************************************)
MaxMPix == 3
MaxK    == 3
medianMaxSamples == 100000

MColors == {<<0, 0, 0>>, <<255, 0, 0>>, <<10, 200, 30>>, <<10, 10, 12>>}
MImages == UNION {[1..n -> MColors] : n \in 1..MaxMPix}

\* The pixels medianCut samples: every step-th one.
MStep == IF Len(mImage) > medianMaxSamples
         THEN (IF Len(mImage) \div medianMaxSamples < 1 THEN 1
               ELSE Len(mImage) \div medianMaxSamples)
         ELSE 1

SampleIdx == {i \in 0..(Len(mImage) - 1) : i % MStep = 0}

Sampled == [k \in 1..Cardinality(SampleIdx) |-> mImage[(k - 1) * MStep + 1]]

\* newColorBox: the bounds of a box in channel ch (1 = R, 2 = G, 3 = B).
RECURSIVE BoxMin(_, _, _, _)
BoxMin(px, ch, i, acc) ==
    IF i > Len(px) THEN acc
    ELSE BoxMin(px, ch, i + 1, IF px[i][ch] < acc THEN px[i][ch] ELSE acc)

RECURSIVE BoxMax(_, _, _, _)
BoxMax(px, ch, i, acc) ==
    IF i > Len(px) THEN acc
    ELSE BoxMax(px, ch, i + 1, IF px[i][ch] > acc THEN px[i][ch] ELSE acc)

BoxRange(px, ch) == BoxMax(px, ch, 1, 0) - BoxMin(px, ch, 1, 255)

\* colorBox.volume
volume(px) ==
    (BoxRange(px, 1) + 1) * (BoxRange(px, 2) + 1) * (BoxRange(px, 3) + 1)

\* colorBox.longestAxis, as a channel 1..3
longestAxis(px) ==
    IF BoxRange(px, 1) >= BoxRange(px, 2) /\ BoxRange(px, 1) >= BoxRange(px, 3)
    THEN 1
    ELSE IF BoxRange(px, 2) >= BoxRange(px, 3) THEN 2
    ELSE 3

RECURSIVE ChanSum(_, _, _)
ChanSum(px, ch, i) ==
    IF i > Len(px) THEN 0 ELSE px[i][ch] + ChanSum(px, ch, i + 1)

\* colorBox.average: the centroid, opaque.
average(px) ==
    IF Len(px) = 0 THEN <<0, 0, 0, 255>>
    ELSE <<(ChanSum(px, 1, 1) \div Len(px)) % 256,
           (ChanSum(px, 2, 1) \div Len(px)) % 256,
           (ChanSum(px, 3, 1) \div Len(px)) % 256, 255>>

\* The box to split: the first one of the highest volume x count among the
\* boxes of two pixels or more (0: there is none).
BestBox(bs) ==
    LET cand == {i \in 1..Len(bs) : Len(bs[i]) >= 2}
        score(i) == volume(bs[i]) * Len(bs[i])
    IN  IF cand = {} THEN 0
        ELSE CHOOSE i \in cand :
                \A j \in cand : score(j) < score(i)
                                \/ (score(j) = score(i) /\ i <= j)

\* What sort.Slice can leave: the pixels of the box in any order that is
\* ascending in the channel.
SortedBy(px, ch) ==
    {q \in {[i \in 1..Len(px) |-> px[f[i]]] : f \in Permutations(1..Len(px))} :
        \A i \in 1..(Len(px) - 1) : q[i][ch] <= q[i + 1][ch]}

\* The condition of the splitting loop.
MoreBoxesMutLE(n, maxColors) == n <= maxColors

MoreBoxes(n, maxColors) == n < maxColors

\* medianCut samples the pixels and starts with one box holding them all.
SamplePixels ==
    /\ mpc = "start"
    /\ IF Len(Sampled) = 0
       THEN /\ mPalette' = <<<<0, 0, 0, 255>>>>
            /\ boxes' = boxes
            /\ mpc' = "apply"
       ELSE /\ boxes' = <<Sampled>>
            /\ mPalette' = mPalette
            /\ mpc' = "split"
    /\ UNCHANGED <<notM, mImage, mK, mIndexed>>

\* One iteration of the splitting loop: the best box is sorted along its
\* longest axis and cut at the median.
SplitBox ==
    /\ mpc = "split"
    /\ MoreBoxes(Len(boxes), mK)
    /\ BestBox(boxes) # 0
    /\ LET bestIdx == BestBox(boxes)
           box == boxes[bestIdx]
           mid == Len(box) \div 2
       IN  \E sorted \in SortedBy(box, longestAxis(box)) :
              boxes' = Append([boxes EXCEPT ![bestIdx] = SubSeq(sorted, 1, mid)],
                              SubSeq(sorted, mid + 1, Len(sorted)))
    /\ UNCHANGED <<notM, mImage, mK, mPalette, mIndexed, mpc>>

\* The loop is left: the palette is built from the centroids of the boxes.
BuildPalette ==
    /\ mpc = "split"
    /\ ~(MoreBoxes(Len(boxes), mK) /\ BestBox(boxes) # 0)
    /\ mPalette' = [i \in 1..Len(boxes) |-> average(boxes[i])]
    /\ mpc' = "apply"
    /\ UNCHANGED <<notM, mImage, mK, boxes, mIndexed>>

\* The nearest palette entry of a colour: the first one of the least
\* squared distance, as a position 0 .. len(palette)-1.
Dist(p, c) ==
    (p[1] - c[1]) * (p[1] - c[1]) + (p[2] - c[2]) * (p[2] - c[2])
        + (p[3] - c[3]) * (p[3] - c[3])

Nearest(p, palette) ==
    IF Len(palette) = 0 THEN 0
    ELSE (CHOOSE i \in 1..Len(palette) :
            \A j \in 1..Len(palette) :
                Dist(p, palette[j]) > Dist(p, palette[i])
                \/ (Dist(p, palette[j]) = Dist(p, palette[i]) /\ i <= j)) - 1

\* applyPalette: every pixel gets uint8(bestIdx).
ApplyPalette ==
    /\ mpc = "apply"
    /\ mIndexed' = [i \in 1..Len(mImage) |-> Nearest(mImage[i], mPalette) % 256]
    /\ mpc' = "done"
    /\ UNCHANGED <<notM, mImage, mK, boxes, mPalette>>

MNext == SamplePixels \/ SplitBox \/ BuildPalette \/ ApplyPalette

(***************************************************************************)
(* CompressBatch: a pool of workers over a closed channel of indices.      *)
(***************************************************************************)
NumCPU == 2

WItemLists == {<<>>, <<"a">>, <<"a", "b">>, <<"b", "a", "a">>}
WWorkerOpts == {0, 1, 2}
WorkerIds == 1..NumCPU

ErrIO == "io error"

\* The steps of CompressFile: the progress checkpoints look at the context,
\* the file operations can fail.
CFSteps == <<"analyzing", "open", "internal", "writing0.9", "write", "writing1.0">>
CFCheckpoints == {"analyzing", "internal", "writing0.9", "writing1.0"}

ZeroResult == [item |-> "", ok |-> FALSE, err |-> Nil, index |-> 0]

IdleWorker == [pc |-> "none", idx |-> 0, step |-> 0, err |-> Nil, c |-> 0]

\* The number of goroutines started.
WorkerCount ==
    LET w0 == IF workersOpt <= 0 THEN NumCPU ELSE workersOpt
    IN  IF w0 > Len(items) THEN Len(items) ELSE w0

\* The feeding loop: every index once, in order.
FeedWorkMutSame(n) == [i \in 1..n |-> 0]

FeedWork(n) == [i \in 1..n |-> i - 1]

\* The call up to the start of the workers.
StartBatch ==
    /\ wpc = "call"
    /\ IF Len(items) = 0
       THEN /\ wpc' = "returned"
            /\ UNCHANGED <<results, workCh, wk, slotWrites>>
       ELSE /\ results' = [i \in 1..Len(items) |-> ZeroResult]
            /\ slotWrites' = [i \in 1..Len(items) |-> 0]
            /\ workCh' = FeedWork(Len(items))
            /\ wk' = [w \in WorkerIds |->
                        IF w <= WorkerCount
                        THEN [IdleWorker EXCEPT !.pc = "recv"]
                        ELSE IdleWorker]
            /\ wpc' = "wait"
    /\ UNCHANGED <<notW, onItemCalls, items, workersOpt, onItemSet, batchCancelled,
                   completed, takenAfterCancel, invoked, inFlightAtCancel>>

\* Someone cancels the batch context while the workers run.
CancelBatch ==
    /\ wpc = "wait"
    /\ ~batchCancelled
    /\ batchCancelled' = TRUE
    /\ inFlightAtCancel' = {wk[w].idx : w \in {v \in WorkerIds : wk[v].pc = "cf"}}
    /\ UNCHANGED <<notW, onItemCalls, items, workersOpt, onItemSet, workCh, results,
                   completed, wk, slotWrites, takenAfterCancel, invoked, wpc>>

\* for idx := range workCh
Recv(w) ==
    /\ wpc = "wait"
    /\ wk[w].pc = "recv"
    /\ IF Len(workCh) = 0
       THEN /\ wk' = [wk EXCEPT ![w].pc = "exit"]
            /\ UNCHANGED <<workCh, takenAfterCancel>>
       ELSE /\ wk' = [wk EXCEPT ![w].pc = "check", ![w].idx = Head(workCh)]
            /\ workCh' = Tail(workCh)
            /\ takenAfterCancel' = (IF batchCancelled
                                    THEN takenAfterCancel \cup {Head(workCh)}
                                    ELSE takenAfterCancel)
    /\ UNCHANGED <<notW, onItemCalls, items, workersOpt, onItemSet, batchCancelled, results,
                   completed, slotWrites, invoked, inFlightAtCancel, wpc>>

\* The look at the context before new work is started.
CheckCtx(w) ==
    /\ wpc = "wait"
    /\ wk[w].pc = "check"
    /\ IF batchCancelled
       THEN /\ results' = [results EXCEPT ![wk[w].idx + 1] =
                              [item |-> items[wk[w].idx + 1], ok |-> FALSE,
                               err |-> ErrCanceled, index |-> wk[w].idx]]
            /\ slotWrites' = [slotWrites EXCEPT ![wk[w].idx + 1] = @ + 1]
            /\ wk' = [wk EXCEPT ![w].pc = "recv"]
            /\ invoked' = invoked
       ELSE /\ wk' = [wk EXCEPT ![w].pc = "cf", ![w].step = 1, ![w].err = Nil]
            /\ invoked' = invoked \cup {wk[w].idx}
            /\ UNCHANGED <<results, slotWrites>>
    /\ UNCHANGED <<notW, onItemCalls, items, workersOpt, onItemSet, batchCancelled, workCh,
                   completed, takenAfterCancel, inFlightAtCancel, wpc>>

\* One step of CompressFile, which was given the batch context.
CompressFileStep(w) ==
    /\ wpc = "wait"
    /\ wk[w].pc = "cf"
    /\ \E fails \in BOOLEAN :
         LET s == CFSteps[wk[w].step]
             err == IF s \in CFCheckpoints
                    THEN (IF batchCancelled THEN ErrCanceled ELSE Nil)
                    ELSE (IF fails THEN ErrIO ELSE Nil)
         IN  IF err # Nil
             THEN wk' = [wk EXCEPT ![w].pc = "store", ![w].err = err]
             ELSE IF wk[w].step = Len(CFSteps)
             THEN wk' = [wk EXCEPT ![w].pc = "store", ![w].err = Nil]
             ELSE wk' = [wk EXCEPT ![w].step = @ + 1]
    /\ UNCHANGED <<notW, onItemCalls, items, workersOpt, onItemSet, batchCancelled, workCh,
                   results, completed, slotWrites, takenAfterCancel, invoked,
                   inFlightAtCancel, wpc>>

\* The outcome of CompressFile is stored in the slot of the item.
StoreResult(w) ==
    /\ wpc = "wait"
    /\ wk[w].pc = "store"
    /\ results' = [results EXCEPT ![wk[w].idx + 1] =
                      [item |-> items[wk[w].idx + 1], ok |-> wk[w].err = Nil,
                       err |-> wk[w].err, index |-> wk[w].idx]]
    /\ slotWrites' = [slotWrites EXCEPT ![wk[w].idx + 1] = @ + 1]
    /\ wk' = [wk EXCEPT ![w].pc = IF onItemSet THEN "onitem" ELSE "recv"]
    /\ UNCHANGED <<notW, onItemCalls, items, workersOpt, onItemSet, batchCancelled, workCh,
                   completed, takenAfterCancel, invoked, inFlightAtCancel, wpc>>

\* The value OnItem is given: the copy c taken under the mutex.
OnItemArgMutShared(c, shared) == shared

OnItemArg(c, shared) == c

\* completed++ and c := completed, under the mutex.
CountItem(w) ==
    /\ wpc = "wait"
    /\ wk[w].pc = "onitem"
    /\ completed' = completed + 1
    /\ wk' = [wk EXCEPT ![w].pc = "callback", ![w].c = completed + 1]
    /\ UNCHANGED <<notW, items, workersOpt, onItemSet, batchCancelled, workCh,
                   results, slotWrites, takenAfterCancel, invoked,
                   inFlightAtCancel, onItemCalls, wpc>>

\* batchOpts.OnItem(c, len(items)), outside the mutex.
OnItem(w) ==
    /\ wpc = "wait"
    /\ wk[w].pc = "callback"
    /\ onItemCalls' =
          [counts |-> [onItemCalls.counts EXCEPT
                          ![OnItemArg(wk[w].c, completed)] = @ + 1],
           totals |-> onItemCalls.totals \cup {Len(items)}]
    /\ wk' = [wk EXCEPT ![w].pc = "recv"]
    /\ UNCHANGED <<notW, items, workersOpt, onItemSet, batchCancelled, workCh,
                   results, completed, slotWrites, takenAfterCancel, invoked,
                   inFlightAtCancel, wpc>>

\* wg.Wait() and the return.
WaitReturn ==
    /\ wpc = "wait"
    /\ \A w \in WorkerIds : wk[w].pc \in {"none", "exit"}
    /\ wpc' = "returned"
    /\ UNCHANGED <<notW, onItemCalls, items, workersOpt, onItemSet, batchCancelled, workCh,
                   results, completed, wk, slotWrites, takenAfterCancel,
                   invoked, inFlightAtCancel>>

WorkerStep(w) ==
    \/ Recv(w) \/ CheckCtx(w) \/ CompressFileStep(w) \/ StoreResult(w)
    \/ CountItem(w) \/ OnItem(w)

WNext ==
    \/ StartBatch
    \/ CancelBatch
    \/ \E w \in WorkerIds : WorkerStep(w)
    \/ WaitReturn

(***************************************************************************)
(* smartResize and lanczosResize.  A buffer is its width, height, stride   *)
(* and bytes; the bytes of the source are SrcByte(offset).                 *)
(***************************************************************************)
MaxRDim == 2

RSizes == {1, 2, 7, 30, 100, 101, 1000}
RMaxes == {-1, 0, 1, 26, 50, 100, 2000}

RCalls ==
    {[op |-> "smartResize", w |-> w, h |-> h, stride |-> 4 * w + e,
      argW |-> aw, argH |-> ah] :
        w \in RSizes, h \in RSizes, e \in {0, 8}, aw \in RMaxes, ah \in RMaxes}
    \cup
    {[op |-> "lanczosResize", w |-> w, h |-> h, stride |-> 4 * w + e,
      argW |-> aw, argH |-> ah] :
        w \in 1..MaxRDim, h \in 1..MaxRDim, e \in {0, 4},
        aw \in 0..(MaxRDim + 1), ah \in 0..(MaxRDim + 1)}

IdleCall == [op |-> "none", w |-> 0, h |-> 0, stride |-> 0, argW |-> 0, argH |-> 0]

NoBuffer == [kind |-> "none", w |-> 0, h |-> 0, stride |-> 0, pix |-> <<>>]

\* The byte of the source buffer at an offset of img.Pix.
SrcByte(off) == (off * 7 + 3) % 256

\* len(img.Pix): up to the last byte of the last row.
SrcLen == (rCall.h - 1) * rCall.stride + 4 * rCall.w

\* math.Min of maxW/srcW and maxH/srcH, as <<numerator, denominator>>.
MinRatioMutMax(maxW, srcW, maxH, srcH) ==
    IF maxW * srcH <= maxH * srcW THEN <<maxH, srcH>> ELSE <<maxW, srcW>>

MinRatio(maxW, srcW, maxH, srcH) ==
    IF maxW * srcH <= maxH * srcW THEN <<maxW, srcW>> ELSE <<maxH, srcH>>

\* int(math.Max(1, math.Round(src * ratio))): half away from zero.  When the
\* exact product is k + 1/2 and the ratio is not the limiting one of this
\* dimension, the float64 product can fall on either side of the tie.
RoundScaled(src, ratio) ==
    LET n == src * ratio[1]
        d == ratio[2]
        up == (2 * n + d) \div (2 * d)
        tie == (2 * n) % (2 * d) = d
        one(v) == IF v < 1 THEN 1 ELSE v
    IN  IF tie /\ src # d THEN {one(up - 1), one(up)} ELSE {one(up)}

\* smartResize up to its call of lanczosResize.
SmartResize ==
    /\ rpc = "smartResize"
    /\ LET srcW == rCall.w
           srcH == rCall.h
           maxW == IF rCall.argW <= 0 THEN srcW ELSE rCall.argW
           maxH == IF rCall.argH <= 0 THEN srcH ELSE rCall.argH
           ratio == MinRatio(maxW, srcW, maxH, srcH)
       IN  IF srcW <= maxW /\ srcH <= maxH
           THEN /\ rOut' = [kind |-> "source", w |-> srcW, h |-> srcH,
                            stride |-> rCall.stride, pix |-> <<>>]
                /\ rpc' = "done"
                /\ UNCHANGED <<rDstW, rDstH>>
           ELSE /\ rDstW' \in RoundScaled(srcW, ratio)
                /\ rDstH' \in RoundScaled(srcH, ratio)
                /\ rpc' = "lanczosResize"
                /\ rOut' = rOut
    /\ UNCHANGED <<notR, rCall>>

\* lanczosResize: the empty result, the identity copy, or the two passes.
LanczosResize ==
    /\ rpc = "lanczosResize"
    /\ IF rCall.w <= 0 \/ rCall.h <= 0 \/ rDstW <= 0 \/ rDstH <= 0
       THEN /\ rOut' = [kind |-> "empty", w |-> 0, h |-> 0, stride |-> 0,
                        pix |-> <<>>]
            /\ rpc' = "done"
       ELSE IF rCall.w = rDstW /\ rCall.h = rDstH
       THEN /\ rOut' = [kind |-> "copy", w |-> rDstW, h |-> rDstH,
                        stride |-> 4 * rDstW,
                        pix |-> [j \in 1..(4 * rDstW * rDstH) |->
                                    IF j <= SrcLen THEN SrcByte(j - 1) ELSE 0]]
            /\ rpc' = "done"
       ELSE /\ rOut' = rOut
            /\ rpc' = "resizeH"
    /\ UNCHANGED <<notR, rCall, rDstW, rDstH>>

\* resizeH: the horizontal pass gives a buffer of dstW x srcH.
ResizeH ==
    /\ rpc = "resizeH"
    /\ rOut' = [kind |-> "resampled", w |-> rDstW, h |-> rCall.h,
                stride |-> 4 * rDstW, pix |-> <<>>]
    /\ rpc' = "resizeV"
    /\ UNCHANGED <<notR, rCall, rDstW, rDstH>>

\* resizeV: the vertical pass gives the buffer of dstW x dstH.
ResizeV ==
    /\ rpc = "resizeV"
    /\ rOut' = [kind |-> "resampled", w |-> rOut.w, h |-> rDstH,
                stride |-> 4 * rOut.w, pix |-> <<>>]
    /\ rpc' = "done"
    /\ UNCHANGED <<notR, rCall, rDstW, rDstH>>

RNext == SmartResize \/ LanczosResize \/ ResizeH \/ ResizeV

(***************************************************************************)
(* SSIM of two constant images of one shape.  Values are in percent        *)
(* (1.0 = 100); a luminance is an integer 0..255.                          *)
(***************************************************************************)
windowSize == 8
ssimC1x100 == 650

SDims == {1, 7, 8, 9, 10, 12}
SLums == {0, 255}
SProcIds == 0..2

\* One window, or pixelSSIM, of two constant images: every variance is 0,
\* so the value is (2*muA*muB + C1) / (muA^2 + muB^2 + C1).
ConstSSIM(a, b) ==
    ((2 * a * b * 100 + ssimC1x100) * 100)
        \div ((a * a + b * b) * 100 + ssimC1x100)

\* The bounds of the window loops: y and x run from half to this, exclusive.
WindowEnd(n) == n - (windowSize \div 2)

\* procs, after the two clamps.
SsimProcs ==
    LET rows == sH - windowSize + 1
        p == IF sMaxProcs > rows THEN rows ELSE sMaxProcs
    IN  IF p < 1 THEN 1 ELSE p

SsimRowsPerProc == ((sH - windowSize + 1) + SsimProcs - 1) \div SsimProcs

SIdleWorker == [pc |-> "none", y |-> 0, endY |-> 0, sum |-> 0, count |-> 0]

NoSsim == [value |-> -1, windows |-> -1]

\* SSIM: small images go to pixelSSIM, the others start the workers of
\* windowedSSIM.
SsimStart ==
    /\ spc = "start"
    /\ IF sW < 8 \/ sH < 8
       THEN /\ sOut' = [value |-> ConstSSIM(sLumA, sLumB), windows |-> 0]
            /\ spc' = "done"
            /\ UNCHANGED <<sWk, sResults>>
       ELSE /\ sWk' = [p \in SProcIds |->
                         IF p < SsimProcs
                         THEN LET startY == (windowSize \div 2) + p * SsimRowsPerProc
                                  e == startY + SsimRowsPerProc
                              IN  [pc |-> "rows", y |-> startY,
                                   endY |-> IF e > WindowEnd(sH) THEN WindowEnd(sH)
                                            ELSE e,
                                   sum |-> 0, count |-> 0]
                         ELSE SIdleWorker]
            /\ sResults' = [p \in 0..(SsimProcs - 1) |-> [sum |-> 0, count |-> 0]]
            /\ spc' = "workers"
            /\ sOut' = sOut
    /\ UNCHANGED <<notS, sW, sH, sLumA, sLumB, sMaxProcs, sRowHits>>

\* One row of a worker: a window at every x from half to w - half.
WindowRow(p) ==
    /\ spc = "workers"
    /\ sWk[p].pc = "rows"
    /\ sWk[p].y < sWk[p].endY
    /\ LET n == IF WindowEnd(sW) > windowSize \div 2
                THEN WindowEnd(sW) - windowSize \div 2 ELSE 0
       IN  sWk' = [sWk EXCEPT ![p].y = @ + 1,
                              ![p].sum = @ + n * ConstSSIM(sLumA, sLumB),
                              ![p].count = @ + n]
    /\ sRowHits' = [sRowHits EXCEPT ![sWk[p].y + 1] = @ + 1]
    /\ UNCHANGED <<notS, sW, sH, sLumA, sLumB, sMaxProcs, sResults, sOut, spc>>

\* The worker leaves its loop and stores its pair.
WorkerStore(p) ==
    /\ spc = "workers"
    /\ sWk[p].pc = "rows"
    /\ sWk[p].y >= sWk[p].endY
    /\ sResults' = [sResults EXCEPT ![p] = [sum |-> sWk[p].sum,
                                             count |-> sWk[p].count]]
    /\ sWk' = [sWk EXCEPT ![p].pc = "exit"]
    /\ UNCHANGED <<notS, sW, sH, sLumA, sLumB, sMaxProcs, sRowHits, sOut, spc>>

RECURSIVE SumField(_, _, _)
SumField(res, f, p) ==
    IF p \notin DOMAIN res THEN 0 ELSE res[p][f] + SumField(res, f, p + 1)

\* wg.Wait() and the reduction.
SsimReduce ==
    /\ spc = "workers"
    /\ \A p \in SProcIds : sWk[p].pc \in {"none", "exit"}
    /\ LET totalSum == SumField(sResults, "sum", 0)
           totalCount == SumField(sResults, "count", 0)
       IN  sOut' = [value |-> IF totalCount = 0 THEN 100
                              ELSE totalSum \div totalCount,
                    windows |-> totalCount]
    /\ spc' = "done"
    /\ UNCHANGED <<notS, sW, sH, sLumA, sLumB, sMaxProcs, sWk, sResults, sRowHits>>

SNext ==
    \/ SsimStart
    \/ \E p \in SProcIds : WindowRow(p) \/ WorkerStore(p)
    \/ SsimReduce

(***************************************************************************)
(* The Quality type: its constants in iota order, and the target chosen    *)
(* for a call.                                                             *)
(***************************************************************************)
\* An older ordering of the constants, Lossless first.
QualityIotaMutLosslessFirst ==
    <<"Lossless", "Ultra", "High", "Balanced", "Aggressive", "Maximum">>

\* const ( Balanced Quality = iota; Lossless; Ultra; High; Aggressive; Maximum )
QualityIota ==
    <<"Balanced", "Lossless", "Ultra", "High", "Aggressive", "Maximum">>

KQualities == -1..6
KTargetSSIMs == {-10, 0, 1, 500, 955, 1000, 1200}

\* The constant an int value of Quality is.
QualityName(q) ==
    IF q \in 0..(Len(QualityIota) - 1) THEN QualityIota[q + 1] ELSE "unknown"

\* Quality.targetSSIM
targetSSIMOf(q) == QualityTargetSSIM(QualityName(q))

\* The target of a compression: the preset, unless opts.TargetSSIM is in (0, 1].
ChooseTarget ==
    /\ kpc = "start"
    /\ kTarget' = (IF kTargetSSIM > 0 /\ kTargetSSIM <= 1000
                   THEN kTargetSSIM
                   ELSE targetSSIMOf(kQuality))
    /\ kpc' = "done"
    /\ UNCHANGED <<notK, kQuality, kTargetSSIM>>

\* Another call, with other options.
NextOptions ==
    /\ kpc = "done"
    /\ kQuality' \in KQualities
    /\ kTargetSSIM' \in KTargetSSIMs
    /\ kTarget' = 0
    /\ kpc' = "start"
    /\ UNCHANGED notK

KNext == ChooseTarget \/ NextOptions

(***************************************************************************)
(* parallelDo: fn(i) for i in [start, stop) over batches of indices.       *)
(***************************************************************************)
MaxDStop  == 5
MaxDProcs == 3

DStarts == {0, 2}
DIdx == 0..(MaxDStop + 1)
DWorkerIds == 0..MaxDProcs

DIdleWorker == [pc |-> "none", from |-> 0, to |-> 0, i |-> 0]

\* procs, after the clamp to the number of indices.
DoProcs ==
    IF dMaxProcs > dStop - dStart THEN dStop - dStart ELSE dMaxProcs

\* batchSize: the indices per goroutine, rounded up.
BatchSizeMutFloor(count, procs) == count \div procs

BatchSize(count, procs) == (count + procs - 1) \div procs

\* The batch of goroutine p (1 .. procs): loop variable p - 1.
BatchOf(p) ==
    LET batchStart == dStart + (p - 1) * BatchSize(dStop - dStart, DoProcs)
        e == batchStart + BatchSize(dStop - dStart, DoProcs)
    IN  [from |-> batchStart, to |-> IF e > dStop THEN dStop ELSE e]

\* The call up to the start of the loops.
DoStart ==
    /\ dpc = "call"
    /\ IF dStop - dStart <= 0
       THEN /\ dpc' = "returned"
            /\ dWk' = dWk
       ELSE IF DoProcs <= 1
       THEN /\ dWk' = [dWk EXCEPT ![0] = [pc |-> "loop", from |-> dStart,
                                          to |-> dStop, i |-> dStart]]
            /\ dpc' = "wait"
       ELSE /\ dWk' = [p \in DWorkerIds |->
                         IF p >= 1 /\ p <= DoProcs
                            /\ BatchOf(p).from < BatchOf(p).to
                         THEN [pc |-> "loop", from |-> BatchOf(p).from,
                               to |-> BatchOf(p).to, i |-> BatchOf(p).from]
                         ELSE DIdleWorker]
            /\ dpc' = "wait"
    /\ UNCHANGED <<notD, dStart, dStop, dMaxProcs, dCalls, dFinished>>

\* A loop calls fn(i).
CallFn(p) ==
    /\ dpc = "wait"
    /\ dWk[p].pc = "loop"
    /\ dWk[p].i < dWk[p].to
    /\ dWk' = [dWk EXCEPT ![p].pc = "infn"]
    /\ dCalls' = [dCalls EXCEPT ![dWk[p].i] = @ + 1]
    /\ UNCHANGED <<notD, dStart, dStop, dMaxProcs, dFinished, dpc>>

\* fn(i) returns and the loop goes on.
FnReturn(p) ==
    /\ dpc = "wait"
    /\ dWk[p].pc = "infn"
    /\ dWk' = [dWk EXCEPT ![p].pc = "loop", ![p].i = @ + 1]
    /\ dFinished' = [dFinished EXCEPT ![dWk[p].i] = @ + 1]
    /\ UNCHANGED <<notD, dStart, dStop, dMaxProcs, dCalls, dpc>>

\* The loop is over: wg.Done().
LoopExit(p) ==
    /\ dpc = "wait"
    /\ dWk[p].pc = "loop"
    /\ dWk[p].i >= dWk[p].to
    /\ dWk' = [dWk EXCEPT ![p].pc = "exit"]
    /\ UNCHANGED <<notD, dStart, dStop, dMaxProcs, dCalls, dFinished, dpc>>

\* wg.Wait() and the return (or the return after the caller's own loop).
DoReturn ==
    /\ dpc = "wait"
    /\ \A p \in DWorkerIds : dWk[p].pc \in {"none", "exit"}
    /\ dpc' = "returned"
    /\ UNCHANGED <<notD, dStart, dStop, dMaxProcs, dWk, dCalls, dFinished>>

DNext ==
    \/ DoStart
    \/ \E p \in DWorkerIds : CallFn(p) \/ FnReturn(p) \/ LoopExit(p)
    \/ DoReturn

(***************************************************************************)
(* boxDownsample: every destination pixel is the mean of a span of source  *)
(* pixels.                                                                 *)
(***************************************************************************)
XSrcDims == {1, 2, 3, 5, 7}
XDstDims == {0, 1, 2, 3, 5, 8}

RECURSIVE GCD(_, _)
GCD(a, b) == IF b = 0 THEN a ELSE GCD(b, a % b)

RECURSIVE IsPow2(_)
IsPow2(n) == IF n = 1 THEN TRUE ELSE IF n % 2 = 1 THEN FALSE ELSE IsPow2(n \div 2)

\* int(float64(d) * ratio) with ratio = float64(src) / float64(dst).  When
\* the exact product is an integer k and the ratio has no exact float64,
\* the float product can fall just below k.
FloorScaled(d, src, dst) ==
    LET k == (d * src) \div dst
    IN  IF d > 0 /\ (d * src) % dst = 0 /\ ~IsPow2(dst \div GCD(src, dst))
        THEN {k - 1, k}
        ELSE {k}

\* The three clamps of a span.
ClampSpan(s0, s1, src) ==
    LET e == IF s1 > src THEN src ELSE s1
        b == IF s0 >= e THEN e - 1 ELSE s0
    IN  <<IF b < 0 THEN 0 ELSE b, e>>

\* The spans destination index d can get.
Spans(d, src, dst) ==
    {ClampSpan(s0, s1, src) :
        s0 \in FloorScaled(d, src, dst), s1 \in FloorScaled(d + 1, src, dst)}

\* The empty-image check.
BoxStart ==
    /\ xpc = "start"
    /\ xpc' = (IF xSrcW <= 0 \/ xSrcH <= 0 \/ xDstW <= 0 \/ xDstH <= 0
               THEN "done" ELSE "cols")
    /\ UNCHANGED <<notX, xSrcW, xSrcH, xDstW, xDstH, xDy, xSpanY, xSpanX,
                   xWritten>>

\* The span of source columns of destination column dx.  Every row computes
\* it anew, from the same operands and so with the same outcome: it is
\* computed here once, before the rows.
BoxColumn ==
    /\ xpc = "cols"
    /\ Len(xSpanX) < xDstW
    /\ \E sx \in Spans(Len(xSpanX), xSrcW, xDstW) : xSpanX' = Append(xSpanX, sx)
    /\ UNCHANGED <<notX, xSrcW, xSrcH, xDstW, xDstH, xDy, xSpanY, xWritten, xpc>>

BoxColumnsDone ==
    /\ xpc = "cols"
    /\ Len(xSpanX) >= xDstW
    /\ xpc' = "rows"
    /\ UNCHANGED <<notX, xSrcW, xSrcH, xDstW, xDstH, xDy, xSpanY, xSpanX,
                   xWritten>>

\* One destination row: its span of source rows, and its pixels; a pixel is
\* written when count > 0.
BoxRow ==
    /\ xpc = "rows"
    /\ xDy < xDstH
    /\ \E sy \in Spans(xDy, xSrcH, xDstH) :
          /\ xSpanY' = Append(xSpanY, sy)
          /\ xWritten' = Append(xWritten,
                 [i \in 1..xDstW |->
                     sy[2] > sy[1] /\ xSpanX[i][2] > xSpanX[i][1]])
    /\ xDy' = xDy + 1
    /\ UNCHANGED <<notX, xSrcW, xSrcH, xDstW, xDstH, xSpanX, xpc>>

\* The row loop is over.
BoxReturn ==
    /\ xpc = "rows"
    /\ xDy >= xDstH
    /\ xpc' = "done"
    /\ UNCHANGED <<notX, xSrcW, xSrcH, xDstW, xDstH, xDy, xSpanY, xSpanX, xWritten>>

XNext == BoxStart \/ BoxColumn \/ BoxColumnsDone \/ BoxRow \/ BoxReturn

(***************************************************************************)
(* MSSSIM: the weights of the levels and the levels evaluated.  A weight   *)
(* is a numerator over lDen.                                               *)
(***************************************************************************)
msWeights == <<448, 2856, 3001, 2363, 1333>>
msWeightDen == 10000

LDims == {4, 8, 10, 15, 16, 31, 32, 64, 100, 128, 300}

RECURSIVE SeqSum(_)
SeqSum(s) == IF s = <<>> THEN 0 ELSE Head(s) + SeqSum(Tail(s))

\* The start of the call: images of one shape, so b is not resized.
MsStart ==
    /\ lpc = "start"
    /\ lw' = lW
    /\ lh' = lH
    /\ lI' = 0
    /\ lWeights' = msWeights
    /\ lDen' = msWeightDen
    /\ lpc' = "levels"
    /\ UNCHANGED <<notL, lW, lH, lCopyW, lCopyH, lUsed>>

\* One iteration of the first loop: the weights are cut after level i and
\* renormalized when min(w, h) < 8, else w and h are halved.
CountLevel ==
    /\ lpc = "levels"
    /\ lI < Len(msWeights) - 1
    /\ IF Min2(lw, lh) < 8
       THEN /\ lWeights' = SubSeq(lWeights, 1, lI + 1)
            /\ lDen' = SeqSum(SubSeq(lWeights, 1, lI + 1))
            /\ lpc' = "copies"
            /\ UNCHANGED <<lw, lh, lI>>
       ELSE /\ lw' = lw \div 2
            /\ lh' = lh \div 2
            /\ lI' = lI + 1
            /\ UNCHANGED <<lWeights, lDen, lpc>>
    /\ UNCHANGED <<notL, lW, lH, lCopyW, lCopyH, lUsed>>

\* The first loop is over; the copies are taken at full size.
MsCopies ==
    /\ lpc \in {"levels", "copies"}
    /\ lpc = "levels" => lI >= Len(msWeights) - 1
    /\ lCopyW' = lW
    /\ lCopyH' = lH
    /\ lI' = 0
    /\ lpc' = "eval"
    /\ UNCHANGED <<notL, lW, lH, lw, lh, lWeights, lDen, lUsed>>

\* One iteration of the second loop: the SSIM of the level enters the
\* result with its weight; the copies are halved, or the loop is left when
\* a half is below 8.
EvalLevel ==
    /\ lpc = "eval"
    /\ lI < Len(lWeights)
    /\ lUsed' = lUsed \cup {lI}
    /\ IF lI < Len(lWeights) - 1
       THEN IF lCopyW \div 2 < 8 \/ lCopyH \div 2 < 8
            THEN /\ lpc' = "done"
                 /\ UNCHANGED <<lCopyW, lCopyH, lI>>
            ELSE /\ lCopyW' = lCopyW \div 2
                 /\ lCopyH' = lCopyH \div 2
                 /\ lI' = lI + 1
                 /\ lpc' = lpc
       ELSE /\ lI' = lI + 1
            /\ UNCHANGED <<lCopyW, lCopyH, lpc>>
    /\ UNCHANGED <<notL, lW, lH, lw, lh, lWeights, lDen>>

\* The second loop has run through all weights.
MsReturn ==
    /\ lpc = "eval"
    /\ lI >= Len(lWeights)
    /\ lpc' = "done"
    /\ UNCHANGED <<notL, lW, lH, lw, lh, lI, lWeights, lDen, lCopyW, lCopyH, lUsed>>

LNext == MsStart \/ CountLevel \/ MsCopies \/ EvalLevel \/ MsReturn

(***************************************************************************)
(* ApplyOrientation.  An image is its width, its height and the pixel at   *)
(* every <<x, y>>; the input pixel at (x, y) is y * w + x.                 *)
(***************************************************************************)
MaxODim == 3

OrientNormal      == 1
OrientFlipH       == 2
OrientRotate180   == 3
OrientFlipV       == 4
OrientTranspose   == 5
OrientRotate90CW  == 6
OrientTransverse  == 7
OrientRotate270CW == 8

Orients == 0..9

Coords(w, h) == (0..(w - 1)) \X (0..(h - 1))

InputImage(w, h) ==
    [w |-> w, h |-> h, pix |-> [c \in Coords(w, h) |-> c[2] * w + c[1]]]

\* dst(h-1-y, x) = src(x, y)
rotateNRGBA90CW(img) ==
    [w |-> img.h, h |-> img.w,
     pix |-> [c \in Coords(img.h, img.w) |-> img.pix[<<c[2], img.h - 1 - c[1]>>]]]

\* dst(w-1-x, h-1-y) = src(x, y)
rotateNRGBA180(img) ==
    [w |-> img.w, h |-> img.h,
     pix |-> [c \in Coords(img.w, img.h) |->
                 img.pix[<<img.w - 1 - c[1], img.h - 1 - c[2]>>]]]

\* dst(y, w-1-x) = src(x, y)
rotateNRGBA270CW(img) ==
    [w |-> img.h, h |-> img.w,
     pix |-> [c \in Coords(img.h, img.w) |-> img.pix[<<img.w - 1 - c[2], c[1]>>]]]

\* dst(w-1-x, y) = src(x, y)
flipNRGBAHorizontal(img) ==
    [w |-> img.w, h |-> img.h,
     pix |-> [c \in Coords(img.w, img.h) |-> img.pix[<<img.w - 1 - c[1], c[2]>>]]]

\* dst(x, h-1-y) = src(x, y)
flipNRGBAVertical(img) ==
    [w |-> img.w, h |-> img.h,
     pix |-> [c \in Coords(img.w, img.h) |-> img.pix[<<c[1], img.h - 1 - c[2]>>]]]

\* The switch: the single operation of a case, or the rotation of the two
\* cases that flip afterwards.
OrientSwitch ==
    /\ opc = "switch"
    /\ oImg' = (CASE oOrient = OrientFlipH       -> flipNRGBAHorizontal(oImg)
                  [] oOrient = OrientRotate180   -> rotateNRGBA180(oImg)
                  [] oOrient = OrientFlipV       -> flipNRGBAVertical(oImg)
                  [] oOrient = OrientTranspose   -> rotateNRGBA270CW(oImg)
                  [] oOrient = OrientRotate90CW  -> rotateNRGBA90CW(oImg)
                  [] oOrient = OrientTransverse  -> rotateNRGBA90CW(oImg)
                  [] oOrient = OrientRotate270CW -> rotateNRGBA270CW(oImg)
                  [] OTHER                       -> oImg)
    /\ opc' = (IF oOrient \in {OrientTranspose, OrientTransverse}
               THEN "flip" ELSE "done")
    /\ UNCHANGED <<notO, oW, oH, oOrient>>

\* return flipNRGBAHorizontal(rotated)
OrientFlip ==
    /\ opc = "flip"
    /\ oImg' = flipNRGBAHorizontal(oImg)
    /\ opc' = "done"
    /\ UNCHANGED <<notO, oW, oH, oOrient>>

ONext == OrientSwitch \/ OrientFlip

(***************************************************************************)
(* The pixel buffers of a compression.  Buffer 0 is the caller's; every    *)
(* function that allocates writes into its new buffer only.                *)
(***************************************************************************)
CallerBuffer == 0
NoBufferId == -1

IKinds == {"nrgba", "other"}
IOrients == {0, 1, 6}
IResizes == {"none", "fits", "shrinks"}
ISizeImgs == {"off", "nil", "src", "new"}

\* toNRGBARef: the image itself when it is an *image.NRGBA (0: no new
\* buffer), else the buffer convertToNRGBA allocates.
toNRGBARef(kind, newBuf) == IF kind = "nrgba" THEN CallerBuffer ELSE newBuf

\* toNRGBA: a new buffer in both cases.
toNRGBA(kind, newBuf) == newBuf

\* Step 1: src := toNRGBA(img).
ConvertStep ==
    /\ ipc = "convert"
    /\ iSrc' = toNRGBA(iKind, iBuffers + 1)
    /\ iBuffers' = iBuffers + 1
    /\ iWritten' = (IF toNRGBA(iKind, iBuffers + 1) = iBuffers + 1
                    THEN iWritten \cup {iBuffers + 1} ELSE iWritten)
    /\ ipc' = "orient"
    /\ UNCHANGED <<notI, iKind, iOrient, iAutoOrient, iResize, iSizeImg,
                   iResultImage>>

\* Step 2: ApplyOrientation allocates for the orientations above 1.
OrientStep ==
    /\ ipc = "orient"
    /\ IF iAutoOrient /\ iOrient > OrientNormal
       THEN /\ iSrc' = iBuffers + 1
            /\ iBuffers' = iBuffers + 1
            /\ iWritten' = iWritten \cup {iBuffers + 1}
       ELSE UNCHANGED <<iSrc, iBuffers, iWritten>>
    /\ ipc' = "resize"
    /\ UNCHANGED <<notI, iKind, iOrient, iAutoOrient, iResize, iSizeImg,
                   iResultImage>>

\* Step 3: smartResize returns its argument when it fits, else the buffer
\* lanczosResize allocates.  A failing progress callback returns no result.
ResizeStep ==
    /\ ipc = "resize"
    /\ \E progressErr \in BOOLEAN :
         IF progressErr
         THEN /\ ipc' = "done"
              /\ UNCHANGED <<iSrc, iBuffers, iWritten, iResultImage>>
         ELSE /\ IF iResize = "shrinks"
                 THEN /\ iSrc' = iBuffers + 1
                      /\ iBuffers' = iBuffers + 1
                      /\ iWritten' = iWritten \cup {iBuffers + 1}
                      /\ iResultImage' = iBuffers + 1
                 ELSE /\ iResultImage' = iSrc
                      /\ UNCHANGED <<iSrc, iBuffers, iWritten>>
              /\ ipc' = "compress"
    /\ UNCHANGED <<notI, iKind, iOrient, iAutoOrient, iResize, iSizeImg>>

\* Target-size mode takes sr.img when there is one; the standard mode
\* encodes src and leaves Result.Image.
CompressStep ==
    /\ ipc = "compress"
    /\ IF iSizeImg = "new"
       THEN /\ iResultImage' = iBuffers + 1
            /\ iBuffers' = iBuffers + 1
            /\ iWritten' = iWritten \cup {iBuffers + 1}
       ELSE IF iSizeImg = "src"
       THEN /\ iResultImage' = iSrc
            /\ UNCHANGED <<iBuffers, iWritten>>
       ELSE UNCHANGED <<iResultImage, iBuffers, iWritten>>
    /\ ipc' = "done"
    /\ UNCHANGED <<notI, iKind, iOrient, iAutoOrient, iResize, iSizeImg, iSrc>>

INext == ConvertStep \/ OrientStep \/ ResizeStep \/ CompressStep

(***************************************************************************)
(* The specifications.                                                     *)
(***************************************************************************)
\* The state after construction, for the machine m that runs: its inputs are
\* drawn from their sets and its locals hold their initial values; the
\* variables of the other machines are idle.
Init(m) ==
    \* compressJPEGOptimal
    /\ targetSSIM \in (IF m = "J" THEN JTargets ELSE {0})
    /\ srcBase \in (IF m = "J" THEN SrcBases ELSE {0})
    /\ srcGain \in (IF m = "J" THEN SrcGains ELSE {0})
    /\ codecBroken \in (IF m = "J" THEN BOOLEAN ELSE {FALSE})
    /\ lo = (IF m = "J" THEN PreheatLo(targetSSIM) ELSE 0)
    /\ hi = (IF m = "J" THEN 100 ELSE 0)
    /\ bestQuality = (IF m = "J" THEN 100 ELSE 0)
    /\ bestSSIM = (IF m = "J" THEN 1000 ELSE 0)
    /\ bestData = NoData
    /\ probes = <<>>
    /\ encCalls = 0
    /\ wOut = <<>>
    /\ jret = [quality |-> 0, ssim |-> 0, data |-> NoData, err |-> Nil]
    /\ result = [err |-> Nil, JPEGQuality |-> 0, SSIM |-> 0,
                 CompressedData |-> <<>>]
    /\ jpc = (IF m = "J" THEN "loop" ELSE "idle")
    \* hitTargetSize
    /\ \E d \in (IF m = "T" THEN TDims
                ELSE IF m = "Q" THEN QDims ELSE {<<0, 0>>}) :
          origW = d[1] /\ origH = d[2]
    /\ opaque \in (IF m = "T" THEN BOOLEAN ELSE {FALSE})
    /\ targetBytes \in (IF m \in {"T", "Q"} THEN TTargets ELSE {0})
    /\ optFormat \in (IF m = "T" THEN Formats ELSE {"Auto"})
    /\ cplx \in (IF m \in {"T", "Q"} THEN Cplxs ELSE {0})
    /\ lanczosExtra \in (IF m = "T" THEN LanczosExtras ELSE {0})
    /\ encLimit \in (IF m \in {"T", "Q"} THEN EncLimits ELSE {0})
    /\ ctxDone = FALSE
    /\ candidates = <<>>
    /\ iter = 0
    /\ loScale = 0
    /\ hiScale = 0
    /\ bestCand = NoCand
    /\ bestScale = 0
    /\ bestQ = 0
    /\ discardedErr = FALSE
    /\ ran = {}
    /\ tret = [res |-> NoResult, err |-> Nil]
    /\ tpc = (IF m = "T" THEN "s1" ELSE "idle")
    \* betterFit
    /\ bfCandidate \in (IF m = "B" THEN BResults ELSE {NoResult})
    /\ bfCurrent \in (IF m = "B" THEN BResults ELSE {NoResult})
    /\ bfOut = FALSE
    /\ bpc = (IF m = "B" THEN "call" ELSE "idle")
    \* compressImageInternal
    /\ imgKind \in (IF m = "C" THEN {"nil", "empty", "valid"} ELSE {"nil"})
    /\ ctxNil \in (IF m = "C" THEN BOOLEAN ELSE {TRUE})
    /\ ctxCancelled \in (IF m = "C" /\ ~ctxNil THEN BOOLEAN ELSE {FALSE})
    /\ preCancelled = ctxCancelled
    /\ cbFailsAt \in (IF m = "C"
                      THEN {"nocallback", "never", "resizing", "compressing",
                            "optimizing", "encoding"}
                      ELSE {"nocallback"})
    /\ sizeMode \in (IF m = "C" THEN BOOLEAN ELSE {FALSE})
    /\ codecFails \in (IF m = "C" THEN BOOLEAN ELSE {FALSE})
    /\ progressLog = <<>>
    /\ cret = [res |-> Nil, err |-> Nil]
    /\ cpc = (IF m = "C" THEN "start" ELSE "idle")
    \* jpegQualitySearch
    /\ qsOut = [err |-> FALSE, found |-> FALSE, quality |-> 0, size |-> 0]
    /\ qpc = (IF m = "Q" THEN "call" ELSE "idle")
    \* analyzeFormat
    /\ \E im \in (IF m = "A" THEN AImages ELSE {<<0, 0>>}) :
          aTotal = im[1] /\ aColors = im[2]
    /\ aAlphaAt \in (IF m = "A" THEN AlphaSpots(aTotal) ELSE {-1})
    /\ aFormat \in (IF m = "A" THEN Formats ELSE {"Auto"})
    /\ aIdx = 0
    /\ colorSet = {}
    /\ hasAlpha = FALSE
    /\ aResolved = "Auto"
    /\ aEncoded = "none"
    /\ apc = (IF m = "A" THEN "start" ELSE "idle")
    \* compressPNG
    /\ pKind \in (IF m = "P" THEN PKinds ELSE {"gray"})
    /\ pN \in (IF m = "P" THEN PCounts ELSE {0})
    /\ pLevels \in (IF m = "P" THEN PLevelSet ELSE {1})
    /\ pScan = 0
    /\ pPalette = <<>>
    /\ pEncoded = NoImage
    /\ pDecoded = <<>>
    /\ ppc = (IF m = "P" THEN "start" ELSE "idle")
    \* medianCut
    /\ mImage \in (IF m = "M" THEN MImages ELSE {<<>>})
    /\ mK \in (IF m = "M" THEN 1..MaxK ELSE {0})
    /\ boxes = <<>>
    /\ mPalette = <<>>
    /\ mIndexed = <<>>
    /\ mpc = (IF m = "M" THEN "start" ELSE "idle")
    \* CompressBatch
    /\ items \in (IF m = "W" THEN WItemLists ELSE {<<>>})
    /\ workersOpt \in (IF m = "W" THEN WWorkerOpts ELSE {0})
    /\ onItemSet \in (IF m = "W" THEN BOOLEAN ELSE {FALSE})
    /\ batchCancelled \in (IF m = "W" THEN BOOLEAN ELSE {FALSE})
    /\ workCh = <<>>
    /\ results = <<>>
    /\ completed = 0
    /\ wk = [w \in WorkerIds |-> IdleWorker]
    /\ slotWrites = <<>>
    /\ takenAfterCancel = {}
    /\ invoked = {}
    /\ inFlightAtCancel = {}
    /\ onItemCalls = [counts |-> [c \in 1..Len(items) |-> 0], totals |-> {}]
    /\ wpc = (IF m = "W" THEN "call" ELSE "idle")
    \* smartResize, lanczosResize
    /\ rCall \in (IF m = "R" THEN RCalls ELSE {IdleCall})
    /\ rDstW = (IF rCall.op = "lanczosResize" THEN rCall.argW ELSE 0)
    /\ rDstH = (IF rCall.op = "lanczosResize" THEN rCall.argH ELSE 0)
    /\ rOut = NoBuffer
    /\ rpc = (IF m = "R" THEN rCall.op ELSE "idle")
    \* SSIM
    /\ sW \in (IF m = "S" THEN SDims ELSE {0})
    /\ sH \in (IF m = "S" THEN SDims ELSE {0})
    /\ sLumA \in (IF m = "S" THEN SLums ELSE {0})
    /\ sLumB \in (IF m = "S" THEN SLums ELSE {0})
    /\ sMaxProcs \in (IF m = "S" THEN 1..3 ELSE {0})
    /\ sWk = [p \in SProcIds |-> SIdleWorker]
    /\ sResults = <<>>
    /\ sRowHits = [y \in 1..sH |-> 0]
    /\ sOut = NoSsim
    /\ spc = (IF m = "S" THEN "start" ELSE "idle")
    \* Quality presets: the first call is made with Options{}
    /\ kQuality = 0
    /\ kTargetSSIM = 0
    /\ kTarget = 0
    /\ kpc = (IF m = "K" THEN "start" ELSE "idle")
    \* parallelDo
    /\ dStart \in (IF m = "D" THEN DStarts ELSE {0})
    /\ dStop \in (IF m = "D" THEN 0..MaxDStop ELSE {0})
    /\ dMaxProcs \in (IF m = "D" THEN 1..MaxDProcs ELSE {0})
    /\ dWk = [p \in DWorkerIds |-> DIdleWorker]
    /\ dCalls = [i \in DIdx |-> 0]
    /\ dFinished = [i \in DIdx |-> 0]
    /\ dpc = (IF m = "D" THEN "call" ELSE "idle")
    \* boxDownsample
    /\ xSrcW \in (IF m = "X" THEN XSrcDims ELSE {0})
    /\ xSrcH \in (IF m = "X" THEN XSrcDims ELSE {0})
    /\ xDstW \in (IF m = "X" THEN XDstDims ELSE {0})
    /\ xDstH \in (IF m = "X" THEN XDstDims ELSE {0})
    /\ xDy = 0
    /\ xSpanY = <<>>
    /\ xSpanX = <<>>
    /\ xWritten = <<>>
    /\ xpc = (IF m = "X" THEN "start" ELSE "idle")
    \* MSSSIM
    /\ lW \in (IF m = "L" THEN LDims ELSE {0})
    /\ lH \in (IF m = "L" THEN LDims ELSE {0})
    /\ lw = 0
    /\ lh = 0
    /\ lI = 0
    /\ lWeights = <<>>
    /\ lDen = 1
    /\ lCopyW = 0
    /\ lCopyH = 0
    /\ lUsed = {}
    /\ lpc = (IF m = "L" THEN "start" ELSE "idle")
    \* ApplyOrientation
    /\ oW \in (IF m = "O" THEN 1..MaxODim ELSE {0})
    /\ oH \in (IF m = "O" THEN 1..MaxODim ELSE {0})
    /\ oOrient \in (IF m = "O" THEN Orients ELSE {0})
    /\ oImg = InputImage(oW, oH)
    /\ opc = (IF m = "O" THEN "switch" ELSE "idle")
    \* pixel storage
    /\ iKind \in (IF m = "I" THEN IKinds ELSE {"other"})
    /\ iOrient \in (IF m = "I" THEN IOrients ELSE {0})
    /\ iAutoOrient \in (IF m = "I" THEN BOOLEAN ELSE {FALSE})
    /\ iResize \in (IF m = "I" THEN IResizes ELSE {"none"})
    /\ iSizeImg \in (IF m = "I" THEN ISizeImgs ELSE {"off"})
    /\ iSrc = NoBufferId
    /\ iBuffers = 0
    /\ iWritten = {}
    /\ iResultImage = NoBufferId
    /\ ipc = (IF m = "I" THEN "convert" ELSE "idle")

SpecJ == Init("J") /\ [][JNext]_vars

SpecT == Init("T") /\ [][TNext]_vars

SpecB == Init("B") /\ [][BNext]_vars

SpecC == Init("C") /\ [][CNext]_vars

SpecQ == Init("Q") /\ [][QNext]_vars

SpecA == Init("A") /\ [][ANext]_vars

SpecP == Init("P") /\ [][PNext]_vars

SpecM == Init("M") /\ [][MNext]_vars

SpecW == Init("W") /\ [][WNext]_vars

SpecR == Init("R") /\ [][RNext]_vars

SpecS == Init("S") /\ [][SNext]_vars

SpecK == Init("K") /\ [][KNext]_vars

SpecD == Init("D") /\ [][DNext]_vars

SpecX == Init("X") /\ [][XNext]_vars

SpecL == Init("L") /\ [][LNext]_vars

SpecO == Init("O") /\ [][ONext]_vars

SpecI == Init("I") /\ [][INext]_vars

(***************************************************************************)
(* Properties of the target-size engine (SpecT).                           *)
(***************************************************************************)
\* The candidates the strategies collected, as a set.
Collected == {candidates[i] : i \in 1..Len(candidates)}

\* Everything hitTargetSize produced in the run: the collected candidates,
\* or the output of the fallback encode when there are none.
Produced == IF Len(candidates) = 0 THEN {tret.res} ELSE Collected

Fitting == {c \in Collected : c.size <= targetBytes}

\* C1: when hitTargetSize has returned, its result is something the run
\* produced; if some strategy collected a candidate of at most T bytes the
\* result has at most T bytes; if none did, nothing the run produced is
\* smaller than the result.
C1_TargetSizeInvariant ==
    tpc = "done" =>
        /\ tret.res \in Produced
        /\ (Fitting # {} => tret.res.size <= targetBytes)
        /\ (Fitting = {} => \A c \in Produced : c.size >= tret.res.size)

\* Two strategies collected fitting candidates and the result fits.
C1_Witness ==
    /\ tpc = "done"
    /\ Cardinality(Fitting) >= 2
    /\ tret.res.size <= targetBytes

\* Strategy 4 alone produced a candidate, over the target, and it is returned.
C1_WitnessOver ==
    /\ tpc = "done"
    /\ Len(candidates) = 1
    /\ candidates[1].size > targetBytes
    /\ tret.res = candidates[1]

\* C5: once the context is cancelled, the next step of the target-size
\* search from a strategy boundary or a loop iteration ends the search with
\* an error and no candidate.
C5_CancelStopsSearch ==
    [][(ctxDone /\ tpc \in {"s1", "s2", "s3", "s3loop", "s3round", "s4",
                            "s4loop", "pick"})
         => (tpc' = "done" /\ tret'.err # Nil /\ tret'.res = NoResult)]_vars

\* C7: hitTargetSize returns an error exactly when no strategy collected a
\* candidate and the fallback encoder failed.
C7_ErrorIffAllFail ==
    tpc = "done" =>
        ((tret.err # Nil) <=> (Len(candidates) = 0 /\ discardedErr))

\* C8: the result is a collected candidate; when some collected candidate
\* fits, the result fits and has the highest SSIM among the fitting ones,
\* with the highest quality among those of that SSIM; and no collected
\* candidate is a better fit than the result.
C8_BestFitReturned ==
    (tpc = "done" /\ Len(candidates) > 0) =>
        /\ tret.res \in Collected
        /\ \A c \in Fitting :
              /\ tret.res.size <= targetBytes
              /\ \/ tret.res.ssim > c.ssim
                 \/ (tret.res.ssim = c.ssim /\ tret.res.quality >= c.quality)
        /\ \A c \in Collected : ~betterFit(c, tret.res, targetBytes)

\* Three strategies collected candidates, not all of one SSIM, and the result
\* is not the first one appended.
C8_Witness ==
    /\ tpc = "done"
    /\ Len(candidates) = 3
    /\ \E c, d \in Fitting : c.ssim # d.ssim
    /\ tret.res # candidates[1]

\* C10: a JPEG result that comes from strategy 1, 3 or 4 has quality >= 20.
C10_QualityFloor ==
    (tpc = "done" /\ tret.res.format = "JPEG"
        /\ tret.res.strategy \in {"s1", "s3", "s4"})
      => tret.res.quality >= minJPEGQuality

(***************************************************************************)
(* Properties of the SSIM-guided JPEG search (SpecJ).                      *)
(***************************************************************************)
ProbeSet == {probes[i] : i \in 1..Len(probes)}

NoProbeMet == \A p \in ProbeSet : p[2] < targetSSIM

\* C2: when some quality in 1..100 meets the target, the quality returned
\* meets it and no lower quality does.
C2_LowestQuality ==
    (jpc = "returned" /\ jret.err = Nil
        /\ \E q \in 1..100 : SsimAt(q) >= targetSSIM)
      => /\ SsimAt(jret.quality) >= targetSSIM
         /\ \A q \in 1..(jret.quality - 1) : SsimAt(q) < targetSSIM

\* C3: the bytes stored in the result are those of a probe at the returned
\* quality, and the encoder was invoked for the probes only.
C3_NoReencode ==
    (jpc = "done" /\ result.err = Nil) =>
        /\ Len(result.CompressedData) = 1
        /\ \E p \in ProbeSet :
              /\ p[1] = result.JPEGQuality
              /\ p[3].quality = result.CompressedData[1].quality
        /\ encCalls = Len(probes)

\* C4: when no probe reached the target, the quality returned is the highest
\* one probed and the SSIM returned is the highest one a probe measured.
C4_FailureSemantics ==
    (jpc = "returned" /\ jret.err = Nil /\ NoProbeMet) =>
        /\ \E p \in ProbeSet : p[1] = jret.quality
        /\ \A p \in ProbeSet : p[1] <= jret.quality
        /\ \E p \in ProbeSet : p[2] = jret.ssim
        /\ \A p \in ProbeSet : p[2] <= jret.ssim

(***************************************************************************)
(* Properties of betterFit (SpecB).                                        *)
(***************************************************************************)
\* C9: betterFit(candidate, current, T) is true exactly when candidate fits
\* and current does not; or both fit and candidate has the higher SSIM, or
\* the same SSIM and the higher quality; or neither fits and candidate is
\* smaller.  betterFit(c, c, T) is false.
C9_BetterFitCases ==
    bpc = "done" =>
        LET cUnder == bfCandidate.size <= BTarget
            bUnder == bfCurrent.size <= BTarget
        IN  /\ bfOut <=>
                 \/ (cUnder /\ ~bUnder)
                 \/ /\ cUnder /\ bUnder
                    /\ \/ bfCandidate.ssim > bfCurrent.ssim
                       \/ /\ bfCandidate.ssim = bfCurrent.ssim
                          /\ bfCandidate.quality > bfCurrent.quality
                 \/ (~cUnder /\ ~bUnder /\ bfCandidate.size < bfCurrent.size)
            /\ (bfCandidate = bfCurrent => ~bfOut)

\* Both fit with the same SSIM and the candidate wins on quality alone,
\* though it is the larger of the two.
C9_Witness ==
    /\ bpc = "done"
    /\ bfOut
    /\ bfCandidate.size <= BTarget /\ bfCurrent.size <= BTarget
    /\ bfCandidate.ssim = bfCurrent.ssim
    /\ bfCandidate.quality > bfCurrent.quality
    /\ bfCandidate.size > bfCurrent.size

(***************************************************************************)
(* Properties of the progress checkpoints (SpecC).                         *)
(***************************************************************************)
\* C6: a checkpoint that saw the context cancelled or the callback fail is
\* the last one of the call, and the call returned that error with a nil
\* Result; a valid image with a context cancelled before the call never
\* returns without an error.
C6_CheckpointStops ==
    /\ \A i \in 1..Len(progressLog) :
          LET e == progressLog[i]
          IN  (e.cancelled \/ e.cbErr) =>
                 /\ i = Len(progressLog)
                 /\ cpc = "done"
                 /\ cret.res = Nil
                 /\ cret.err = (IF e.cancelled THEN ErrCanceled
                                ELSE ErrCallback)
    /\ (preCancelled /\ imgKind = "valid" /\ cpc = "done") => cret.err # Nil

\* The context is cancelled while the call runs and the third checkpoint
\* stops the call.
C6_Witness ==
    /\ cpc = "done"
    /\ ~preCancelled
    /\ Len(progressLog) = 3
    /\ progressLog[3].cancelled
    /\ cret = [res |-> Nil, err |-> ErrCanceled]

(***************************************************************************)
(* Properties of jpegQualitySearch (SpecQ).                                *)
(***************************************************************************)
\* The qualities in 1..100 at which the source encodes to at most T bytes.
FitQualities == {q \in 1..100 : JpegSize(origW, origH, q, "orig") <= targetBytes}

\* C11: a result of jpegQualitySearch carries the largest quality of 1..100
\* whose encoding fits the target and its data fits; nil is returned only
\* when no quality of 1..100 fits.
C11_HighestFittingQuality ==
    (qpc = "done" /\ ~qsOut.err) =>
        /\ qsOut.found =>
              /\ qsOut.size <= targetBytes
              /\ qsOut.quality \in FitQualities
              /\ \A q \in FitQualities : q <= qsOut.quality
        /\ ~qsOut.found => FitQualities = {}

(***************************************************************************)
(* More properties of the target-size engine (SpecT).                      *)
(***************************************************************************)
\* C12: the result of hitTargetSize is a JPEG when the Format option is
\* JPEG, a PNG when it is PNG, a PNG when it is Auto and the source is not
\* opaque, and never Auto; and under a JPEG option the palette strategy is
\* never invoked.
C12_FormatRespectsPolicy ==
    /\ tpc = "done" =>
          /\ tret.res.format \in {"JPEG", "PNG"}
          /\ (optFormat = "JPEG" => tret.res.format = "JPEG")
          /\ (optFormat = "PNG" => tret.res.format = "PNG")
          /\ (optFormat = "Auto" /\ ~opaque => tret.res.format = "PNG")
    /\ (optFormat = "JPEG" => "s2" \notin ran)

\* An Auto policy on a source with transparency ends in a PNG made by the
\* scale search.
C12_Witness ==
    /\ tpc = "done"
    /\ optFormat = "Auto" /\ ~opaque
    /\ "s4" \in ran
    /\ tret.res.strategy = "s4"
    /\ tret.res.format = "PNG"

(***************************************************************************)
(* Properties of the format resolution (SpecA).                            *)
(***************************************************************************)
\* C13: in quality mode with Format=Auto, an image with a pixel of
\* alpha < 255 is encoded as PNG.
C13_AlphaMeansPNG ==
    (apc = "done" /\ aFormat = "Auto" /\ aAlphaAt >= 0) => aEncoded = "PNG"

(***************************************************************************)
(* Properties of the PNG optimizer (SpecP).                                *)
(***************************************************************************)
\* C14: decoding the output of compressPNG gives back every pixel's R, G, B
\* and A unchanged, whichever tier was selected.
C14_PngLossless ==
    ppc = "done" => \A i \in PixelIdx : pDecoded[i] = Pixel(i)

(***************************************************************************)
(* Properties of the colour quantization (SpecM).                          *)
(***************************************************************************)
\* C15: for a non-empty image and K >= 1, medianCut returns at least 1 and
\* at most K palette entries, and applyPalette gives every pixel an index
\* that is a position of that palette.
C15_PaletteBounds ==
    /\ mpc \in {"apply", "done"} =>
          (Len(mPalette) >= 1 /\ Len(mPalette) <= mK)
    /\ mpc = "done" =>
          /\ Len(mIndexed) = Len(mImage)
          /\ \A i \in 1..Len(mImage) : mIndexed[i] \in 0..(Len(mPalette) - 1)

\* An image of three colours is cut into a palette of K = 3 entries and a
\* pixel is given the last one.
C15_Witness ==
    /\ mpc = "done"
    /\ mK = 3
    /\ Len(mPalette) = 3
    /\ \E i \in 1..Len(mImage) : mIndexed[i] = 2

(***************************************************************************)
(* Properties of the batch (SpecW).                                        *)
(***************************************************************************)
\* C16: CompressBatch returns exactly one result per item, in input order:
\* results[i].Index = i and results[i].Item = items[i], and every slot is
\* written exactly once, whatever the number of workers and their
\* interleaving.
C16_OneResultPerItem ==
    /\ wpc = "wait" => \A i \in 1..Len(items) : slotWrites[i] <= 1
    /\ wpc = "returned" =>
          /\ Len(results) = Len(items)
          /\ \A i \in 1..Len(items) :
                /\ results[i].index = i - 1
                /\ results[i].item = items[i]
                /\ slotWrites[i] = 1

\* Three items were shared by two workers and the call has returned.
C16_Witness ==
    /\ wpc = "returned"
    /\ Len(items) = 3
    /\ WorkerCount = 2
    /\ \A i \in 1..3 : slotWrites[i] = 1
    /\ \E i \in 1..3 : results[i].ok

\* The items received after the cancellation are not started.
NoNewItemAfterCancel ==
    /\ takenAfterCancel \cap invoked = {}
    /\ wpc = "returned" =>
          \A i \in takenAfterCancel : results[i + 1].err = ErrCanceled

\* The call returns only when every worker has left its loop.
ReturnsAfterWorkers ==
    wpc = "returned" => \A w \in WorkerIds : wk[w].pc \in {"none", "exit"}

\* The items inside CompressFile at the cancellation are not cut short.
InFlightRunToCompletion ==
    wpc = "returned" =>
        \A i \in inFlightAtCancel : results[i + 1].err # ErrCanceled

\* C17: once the batch context is cancelled no new item is started (an item
\* received after the cancellation gets the context's error and CompressFile
\* is not called for it), the items in flight run to completion, and the
\* call returns after all workers have exited.
C17_CancelStartsNothingNew ==
    /\ NoNewItemAfterCancel
    /\ InFlightRunToCompletion
    /\ ReturnsAfterWorkers

(***************************************************************************)
(* Properties of the resize (SpecR).                                       *)
(***************************************************************************)
\* C18: the identity resize is exact: lanczosResize(B, W, H) on a buffer B of
\* W x H, whatever its stride, returns a buffer whose pixel (x, y) equals
\* B's pixel (x, y).
C18_IdentityExact ==
    (rpc = "done" /\ rCall.op = "lanczosResize"
        /\ rCall.argW = rCall.w /\ rCall.argH = rCall.h) =>
        /\ rOut.w = rCall.w
        /\ rOut.h = rCall.h
        /\ \A x \in 0..(rCall.w - 1), y \in 0..(rCall.h - 1), c \in 0..3 :
              rOut.pix[y * rOut.stride + 4 * x + c + 1]
                  = SrcByte(y * rCall.stride + 4 * x + c)

\* The source fits within the limits of the call.
RFits ==
    /\ (rCall.argW <= 0 \/ rCall.w <= rCall.argW)
    /\ (rCall.argH <= 0 \/ rCall.h <= rCall.argH)

\* C19: smartResize returns an image of width <= MaxWidth (when MaxWidth > 0)
\* and height <= MaxHeight (when MaxHeight > 0), of both dimensions >= 1; a
\* source that fits is returned unchanged, and no image is upscaled.
C19_SmartResizeBounds ==
    (rpc = "done" /\ rCall.op = "smartResize") =>
        /\ rCall.argW > 0 => rOut.w <= rCall.argW
        /\ rCall.argH > 0 => rOut.h <= rCall.argH
        /\ rOut.w >= 1 /\ rOut.h >= 1
        /\ rOut.w <= rCall.w /\ rOut.h <= rCall.h
        /\ RFits => (rOut.kind = "source" /\ rOut.w = rCall.w /\ rOut.h = rCall.h)

\* A 1000 x 100 image was brought into a 50 x 26 box: 50 x 5.
C19_Witness ==
    /\ rpc = "done"
    /\ rCall.op = "smartResize"
    /\ rCall.w = 1000 /\ rCall.h = 100
    /\ rCall.argW = 50 /\ rCall.argH = 26
    /\ rOut.kind = "resampled"
    /\ rOut.w = 50 /\ rOut.h = 5

\* C20: for every input size (W, H) and box (M, M) with max(W, H) > M the
\* output (W', H') has |W/H - W'/H'| / (W/H) < 0.02, that is
\* 50 * |W*H' - W'*H| < W*H'.
C20_AspectWithin2Percent ==
    (rpc = "done" /\ rCall.op = "smartResize"
        /\ rCall.argW > 0 /\ rCall.argH = rCall.argW
        /\ (rCall.w > rCall.argW \/ rCall.h > rCall.argW)) =>
        LET a == rCall.w * rOut.h
            b == rOut.w * rCall.h
        IN  50 * (IF a >= b THEN a - b ELSE b - a) < a

(***************************************************************************)
(* Properties of SSIM (SpecS).                                             *)
(***************************************************************************)
\* C21: for a constant black and a constant white image of one shape W x H,
\* W >= 1 and H >= 1, SSIM(black, white) <= 0.1.
C21_BlackWhiteLow ==
    (spc = "done" /\ sLumA = 0 /\ sLumB = 255) => sOut.value <= 10

\* C23: for W >= 8 and H >= 8 windowedSSIM evaluates one window at every
\* position where the 8 x 8 window fits, (W-7)*(H-7) windows, each counted
\* once across the workers, for any number of workers.
C23_WindowCount ==
    (spc = "done" /\ sW >= 8 /\ sH >= 8) =>
        /\ sOut.windows = (sW - 7) * (sH - 7)
        /\ \A y \in 1..sH : sRowHits[y] <= 1

(***************************************************************************)
(* Properties of the quality presets (SpecK).                              *)
(***************************************************************************)
\* C22: each preset maps to its fixed target SSIM (Lossless 1.00, Ultra 0.99,
\* High 0.97, Balanced 0.94, Aggressive 0.90, Maximum 0.85), and the zero
\* value of Quality, hence Options{}, is Balanced: an unconfigured Options
\* targets SSIM 0.94.
C22_PresetTargets ==
    /\ targetSSIMOf(0) = 940
    /\ QualityName(0) = "Balanced"
    /\ {<<QualityName(q), targetSSIMOf(q)>> : q \in 0..5}
          = {<<"Lossless", 1000>>, <<"Ultra", 990>>, <<"High", 970>>,
             <<"Balanced", 940>>, <<"Aggressive", 900>>, <<"Maximum", 850>>}
    /\ (kpc = "done" /\ kQuality = 0 /\ kTargetSSIM = 0) => kTarget = 940
    /\ (kpc = "done" /\ ~(kTargetSSIM > 0 /\ kTargetSSIM <= 1000)) =>
          kTarget = targetSSIMOf(kQuality)

\* A call with Options{} has chosen its target.
C22_Witness ==
    /\ kpc = "done"
    /\ kQuality = 0
    /\ kTargetSSIM = 0
    /\ kTarget = 940

(***************************************************************************)
(* Properties of parallelDo (SpecD).                                       *)
(***************************************************************************)
\* C24: parallelDo(start, stop, fn) calls fn(i) exactly once for every i in
\* [start, stop) and for no other i; the indices are given to the goroutines
\* in disjoint contiguous batches, so no two of them handle the same index;
\* and it returns only after every call has finished, for any range length
\* and any number of CPUs.
C24_ParallelDoOnce ==
    /\ \A i \in DIdx :
          /\ dCalls[i] <= 1
          /\ dCalls[i] > 0 => (i >= dStart /\ i < dStop)
    /\ \A p, q \in DWorkerIds :
          (p # q /\ dWk[p].pc # "none" /\ dWk[q].pc # "none") =>
              (dWk[p].to <= dWk[q].from \/ dWk[q].to <= dWk[p].from)
    /\ dpc = "returned" =>
          /\ \A i \in DIdx : dFinished[i] = (IF i >= dStart /\ i < dStop THEN 1 ELSE 0)
          /\ \A p \in DWorkerIds : dWk[p].pc # "infn"

\* Five indices were shared by three goroutines, the last batch the shorter,
\* and the call has returned.
C24_Witness ==
    /\ dpc = "returned"
    /\ dStart = 0 /\ dStop = 5 /\ dMaxProcs = 3
    /\ dWk[3].from = 4 /\ dWk[3].to = 5
    /\ \A i \in 0..4 : dFinished[i] = 1

(***************************************************************************)
(* Properties of boxDownsample (SpecX).                                    *)
(***************************************************************************)
\* C25: for any source and destination dimensions >= 1, a destination larger
\* than the source included, the span of every destination pixel is clamped
\* to a non-empty span inside the source, so that every destination pixel is
\* the mean of at least one source pixel.
C25_SpansNonEmpty ==
    (xpc \in {"cols", "rows", "done"} /\ xDstW >= 1 /\ xDstH >= 1) =>
        /\ \A i \in 1..Len(xSpanX) :
              0 <= xSpanX[i][1] /\ xSpanX[i][1] < xSpanX[i][2]
                  /\ xSpanX[i][2] <= xSrcW
        /\ \A j \in 1..Len(xSpanY) :
              0 <= xSpanY[j][1] /\ xSpanY[j][1] < xSpanY[j][2]
                  /\ xSpanY[j][2] <= xSrcH
        /\ \A j \in 1..Len(xWritten) : \A i \in 1..xDstW : xWritten[j][i]

(***************************************************************************)
(* Properties of MSSSIM (SpecL).                                           *)
(***************************************************************************)
\* The sum of the numerators of the weights of the levels evaluated.
RECURSIVE UsedWeight(_)
UsedWeight(i) ==
    IF i >= Len(lWeights) THEN 0
    ELSE (IF i \in lUsed THEN lWeights[i + 1] ELSE 0) + UsedWeight(i + 1)

\* C26: MS-SSIM renormalizes over the levels it evaluates: for an image of
\* minimum dimension >= 8 the weights of the levels whose SSIM enters the
\* product sum to 1 (here: within 0.001), and a level dropped because its
\* minimum dimension is below 8 carries no weight.
C26_WeightsSumToOne ==
    (lpc = "done" /\ Min2(lW, lH) >= 8) =>
        /\ 1000 * UsedWeight(0) >= 999 * lDen
        /\ 1000 * UsedWeight(0) <= 1001 * lDen
        /\ \A i \in 0..(Len(lWeights) - 1) : i \in lUsed

(***************************************************************************)
(* Properties of ApplyOrientation (SpecO).                                 *)
(***************************************************************************)
\* C27: for OrientTranspose (5) the output pixel at column y, row x is the
\* input pixel (x, y), the mirror across the main diagonal; for
\* OrientTransverse (7) the output pixel (H-1-y, W-1-x) is the input pixel
\* (x, y), the mirror across the anti-diagonal.
C27_DiagonalMirrors ==
    opc = "done" =>
        /\ oOrient = OrientTranspose =>
              /\ oImg.w = oH /\ oImg.h = oW
              /\ \A c \in Coords(oW, oH) :
                    oImg.pix[<<c[2], c[1]>>] = InputImage(oW, oH).pix[c]
        /\ oOrient = OrientTransverse =>
              /\ oImg.w = oH /\ oImg.h = oW
              /\ \A c \in Coords(oW, oH) :
                    oImg.pix[<<oH - 1 - c[2], oW - 1 - c[1]>>]
                        = InputImage(oW, oH).pix[c]

(***************************************************************************)
(* Termination of the JPEG quality search (SpecJ).                         *)
(***************************************************************************)
\* The longest run of the loop from the interval [l, h], over both outcomes
\* of every probe.
RECURSIVE MaxProbes(_, _)
MaxProbes(l, h) ==
    IF l > h THEN 0
    ELSE LET a == MaxProbes(l, Mid(l, h) - 1)
             b == MaxProbes(Mid(l, h) + 1, h)
         IN  1 + (IF a >= b THEN a ELSE b)

\* C28: the SSIM-guided quality search terminates: [lo, hi] shrinks strictly
\* on every probe, so that for any sequence of SSIM outcomes and any
\* preheated lower bound there are at most 7 encode/decode probes.
C28_AtMostSevenProbes ==
    /\ [](Len(probes) <= 7)
    /\ [](\A t \in JTargets : MaxProbes(PreheatLo(t), 100) <= 7)
    /\ [][probes' # probes => hi' - lo' < hi - lo]_vars

\* A search from the full range 1..100 has ended after seven probes.
C28_Witness ==
    /\ jpc \in {"returned", "done"}
    /\ Len(probes) = 7
    /\ targetSSIM < 900

(***************************************************************************)
(* Properties of the pixel storage (SpecI).                                *)
(***************************************************************************)
\* C29: CompressImage never writes to the caller's image, and Result.Image
\* never shares pixel storage with it, whatever the options: all processing
\* and the returned image use a private copy.
C29_PrivateCopy ==
    /\ CallerBuffer \notin iWritten
    /\ iResultImage # CallerBuffer
    /\ ipc \notin {"convert", "idle"} => iSrc # CallerBuffer

\* An *image.NRGBA compressed with no limits, normal orientation and no
\* target size: Result.Image is the copy made by toNRGBA.
C29_Witness ==
    /\ ipc = "done"
    /\ iKind = "nrgba"
    /\ iResize = "none"
    /\ iOrient = OrientNormal
    /\ iSizeImg = "off"
    /\ iResultImage = 1

====
